---- MODULE Spec2Model ----
(***************************************************************************)
(* A model of the Jupiter swap scripts: the CoreSwap run behind the CLI    *)
(* entry points, the POST /swap handler, QuoteService (adaptive slippage,  *)
(* retry loops, quote cache), NetworkService (in-flight request pool,      *)
(* confirmTransaction) and PriorityFeeDemo.calculatePriorityFee.           *)
(*                                                                         *)
(* Each component has its own group of variables and its own               *)
(* specification; a specification leaves the other groups untouched.       *)
(***************************************************************************)
EXTENDS Integers, Sequences, FiniteSets, TLC

VARIABLES
    \* ---- QuoteService.calculateAdaptiveSlippage (services/QuoteService.js)
    slippageConfig,   \* this.slippageConfig, set by the constructor
    slipArgs,         \* the arguments of the last call
    adaptiveSlippage, \* the value the last call returned
    slipPc,           \* "constructed" | "returned"
    \* ---- one swap run: a CLI process, or one POST /swap request
    entry,            \* which script runs (or "server")
    scriptPath,       \* the path the script was started with
    input,            \* process.env, or the request body: privateKey, feeRecipient, feeBps
    pc,               \* the call the run is waiting for, or "module", "main", "idle", "exited"
    keypair,          \* this.keypair has been set
    connection,       \* a Connection has been created
    priorityFee,      \* the priorityFeeMicroLamports performSwap is called with
    balance,          \* the balance getBalance returned
    quote,            \* the quote the Jupiter quote request returned
    swapTransaction,  \* the transaction the Jupiter swap request returned
    calls,            \* every external request made, in order, with its outcome
    waits,            \* every delay waited between attempts, in ms
    attempts,         \* executeSwap's count of failed sendTransaction attempts
    swapOutcome,      \* performSwap: "none" | "pending" | "resolved" | "rejected"
    errorMessage,     \* the message of the error that ended the run
    exitStatus,       \* <<>> while the process runs, then <<code>>
    responses,        \* the HTTP responses sent for the request
    \* ---- QuoteService.getQuote / createSwapTransaction (services/QuoteService.js)
    quoteService,     \* the constructor's options and this.retries, timeout, cacheTimeout
    quoteCache,       \* this.cache: cache key -> [value, timestamp]
    quoteNow,         \* Date.now(), in ms
    quotePc,          \* "constructed" | "request" | "backoff" | "returned" | "rejected"
    quoteCall,        \* the call in progress: method, params, attempt
    requests,         \* the HTTP requests of the call in progress, with their outcome
    delays,           \* the setTimeout delays of the call in progress, in ms
    quoteResult,      \* what the last call returned or threw
    quoteCalls,       \* the number of calls made
    \* ---- NetworkService.executeParallelCalls (unnamed/part_001)
    networkService,   \* the constructor's options and this.cacheTimeout
    cache,            \* this.cache: cache key -> [value, timestamp]
    requestPool,      \* this.requestPool: request key -> the promise of the request
    promises,         \* every request promise created, with its state and value
    results,          \* what each call handed back: a cached value or a promise
    netNow,           \* Date.now(), in ms
    \* ---- NetworkService.confirmTransaction (unnamed/part_001)
    confirmPc,        \* "idle" | "ready" | "racing" | "settled"
    confirmTimeout,   \* the timeout the call runs with, in ms
    confirmNow,       \* ms since the call
    rpcConfirmation,  \* connection.confirmTransaction: "pending" | "ok" | "err" | "rejected"
    rpcSettledAt,     \* when it settled, or -1
    timerFiredAt,     \* when the timeout timer fired, or -1
    confirmOutcome,   \* what confirmTransaction returned or threw
    \* ---- PriorityFeeDemo.calculatePriorityFee (test-priority-fees.js)
    feeEnv,           \* process.env: the priority-fee variables
    feeMode,          \* the mode calculatePriorityFee was called with
    feePc,            \* "idle" | "ready" | "fetching" | "returned"
    recentFees,       \* what getRecentPrioritizationFees gave
    returnedFee       \* the fee calculatePriorityFee returned, or -1

slipVars == <<slippageConfig, slipArgs, adaptiveSlippage, slipPc>>
runInputs == <<entry, scriptPath, input>>
runVars == <<entry, scriptPath, input, pc, keypair, connection, priorityFee, balance,
             quote,
             swapTransaction, calls, waits, attempts, swapOutcome, errorMessage,
             exitStatus, responses>>

quoteVars == <<quoteService, quoteCache, quoteNow, quotePc, quoteCall, requests, delays,
               quoteResult, quoteCalls>>

netVars == <<networkService, cache, requestPool, promises, results, netNow>>

confirmVars == <<confirmPc, confirmTimeout, confirmNow, rpcConfirmation, rpcSettledAt,
                 timerFiredAt, confirmOutcome>>

feeVars == <<feeEnv, feeMode, feePc, recentFees, returnedFee>>

vars == <<slipVars, runVars, quoteVars, netVars, confirmVars, feeVars>>

Max(a, b) == IF a >= b THEN a ELSE b
Min(a, b) == IF a <= b THEN a ELSE b

(***************************************************************************)
(* JavaScript values and the conversions the validation code applies       *)
(*                                                                         *)
(* A string is a sequence of one-character strings.  A value is undefined, *)
(* a string or an integer number.                                          *)
(***************************************************************************)
Undefined == [t |-> "undefined", s |-> <<>>, n |-> 0]
Str(s) == [t |-> "string", s |-> s, n |-> 0]
Num(n) == [t |-> "number", s |-> <<>>, n |-> n]

\* `!v`: undefined, the empty string and the number 0 are falsy.
Falsy(v) ==
    \/ v.t = "undefined"
    \/ v.t = "string" /\ v.s = <<>>
    \/ v.t = "number" /\ v.n = 0

DecimalDigits == <<"0", "1", "2", "3", "4", "5", "6", "7", "8", "9">>
HexDigits == DecimalDigits \o <<"a", "b", "c", "d", "e", "f">>

IndexOf(c, alphabet) ==
    IF \E i \in 1..Len(alphabet) : alphabet[i] = c
    THEN CHOOSE i \in 1..Len(alphabet) : alphabet[i] = c
    ELSE 0

RECURSIVE NatToString(_)
\* String(n) for a natural number n.
NatToString(n) ==
    IF n < 10 THEN <<DecimalDigits[n + 1]>>
    ELSE NatToString(n \div 10) \o <<DecimalDigits[(n % 10) + 1]>>

\* String(v), the first step of parseInt(v).
JsString(v) ==
    CASE v.t = "string" -> v.s
      [] v.t = "number" -> IF v.n < 0 THEN <<"-">> \o NatToString(-v.n) ELSE NatToString(v.n)
      [] OTHER -> <<"u", "n", "d", "e", "f", "i", "n", "e", "d">>

RECURSIVE StripLeadingSpace(_)
StripLeadingSpace(s) ==
    IF s # <<>> /\ Head(s) = " " THEN StripLeadingSpace(Tail(s)) ELSE s

RECURSIVE DigitPrefix(_, _)
\* The longest prefix of s made of digits of the alphabet.
DigitPrefix(s, alphabet) ==
    IF s # <<>> /\ IndexOf(Head(s), alphabet) > 0
    THEN <<Head(s)>> \o DigitPrefix(Tail(s), alphabet)
    ELSE <<>>

RECURSIVE DigitsValue(_, _, _)
\* The number the digits ds spell in the alphabet's radix, after acc.
DigitsValue(ds, alphabet, acc) ==
    IF ds = <<>> THEN acc
    ELSE DigitsValue(Tail(ds), alphabet,
                     acc * Len(alphabet) + (IndexOf(Head(ds), alphabet) - 1))

\* parseInt(v) with no radix: leading white space is skipped, a sign is
\* read, "0x" selects radix 16, the longest run of digits is converted and
\* whatever follows it is ignored; no digit at all gives NaN.
parseInt(v) ==
    LET s0 == StripLeadingSpace(JsString(v))
        neg == s0 # <<>> /\ Head(s0) = "-"
        s1 == IF s0 # <<>> /\ Head(s0) \in {"-", "+"} THEN Tail(s0) ELSE s0
        hex == Len(s1) >= 2 /\ s1[1] = "0" /\ s1[2] \in {"x", "X"}
        s2 == IF hex THEN Tail(Tail(s1)) ELSE s1
        alphabet == IF hex THEN HexDigits ELSE DecimalDigits
        ds == DigitPrefix(s2, alphabet)
        val == DigitsValue(ds, alphabet, 0)
    IN  IF ds = <<>> THEN [nan |-> TRUE, v |-> 0]
        ELSE [nan |-> FALSE, v |-> IF neg THEN -val ELSE val]

Base58Alphabet ==
    <<"1", "2", "3", "4", "5", "6", "7", "8", "9",
      "A", "B", "C", "D", "E", "F", "G", "H", "J", "K", "L", "M", "N", "P", "Q",
      "R", "S", "T", "U", "V", "W", "X", "Y", "Z",
      "a", "b", "c", "d", "e", "f", "g", "h", "i", "j", "k", "m", "n", "o", "p",
      "q", "r", "s", "t", "u", "v", "w", "x", "y", "z">>

RECURSIVE LeadingOnes(_)
LeadingOnes(s) == IF s # <<>> /\ Head(s) = "1" THEN 1 + LeadingOnes(Tail(s)) ELSE 0

RECURSIVE BigEndianBytes(_)
\* The bytes of a natural number, most significant first; none for 0.
BigEndianBytes(n) ==
    IF n = 0 THEN <<>> ELSE BigEndianBytes(n \div 256) \o <<n % 256>>

\* bs58.decode(s): throws on a character outside the alphabet; otherwise one
\* zero byte per leading "1", then the bytes of the base-58 number the rest
\* of the string spells.
bs58decode(s) ==
    IF \E i \in 1..Len(s) : IndexOf(s[i], Base58Alphabet) = 0
    THEN [threw |-> TRUE, bytes |-> <<>>]
    ELSE LET z == LeadingOnes(s)
             rest == SubSeq(s, z + 1, Len(s))
         IN  [threw |-> FALSE,
              bytes |-> [i \in 1..z |-> 0]
                          \o BigEndianBytes(DigitsValue(rest, Base58Alphabet, 0))]

Ones(k) == [i \in 1..k |-> "1"]

(***************************************************************************)
(* QuoteService: adaptive slippage                                         *)
(*                                                                         *)
(* Numbers that are floats in the code are kept exact: a price impact is   *)
(* a number of eighths of a percent and the volatility factor a number of  *)
(* quarters, so every product below is a dyadic rational that a double     *)
(* holds exactly and Math.floor is an integer division.                    *)
(***************************************************************************)
MaxImpactQ == 10     \* price impacts 0/8 % .. MaxImpactQ/8 %
MaxHops == 3         \* routeInfo.hops in 0..MaxHops

\* The values each constructor option is given; 0 is "not given" (or given
\* as 0: `options.x || default` takes the default for both).
BaseSlippageOptions == {0, 30, 600}
MinSlippageOptions == {0, 20, 600}
MaxSlippageOptions == {0, 30, 900}
MultiplierOptions == {0, 1, 3}
VolatilityQOptions == {0, 4, 8}    \* quarters: 1.0 and 2.0 (default 1.5 = 6)

volatileDexes == {"Serum", "OpenBook", "Raydium CLMM"}
ExchangeLabels == {"Orca", "Serum", "Raydium CLMM"}

\* `options.x || d`
OrDefault(x, d) == IF x = 0 THEN d ELSE x

QuoteServiceSlippageConfig(o) ==
    [ base |-> OrDefault(o.baseSlippage, 100),
      min |-> OrDefault(o.minSlippage, 50),
      max |-> OrDefault(o.maxSlippage, 500),
      priceImpactMultiplier |-> OrDefault(o.priceImpactMultiplier, 2),
      volatilityFactorQ |-> OrDefault(o.volatilityFactorQ, 6) ]

\* The price-impact term: Math.floor(priceImpact * multiplier * 100) when
\* priceImpact > 0.5, with priceImpact = impactQ / 8.
PriceImpactAdjustment(cfg, impactQ) ==
    IF impactQ > 4 THEN (impactQ * cfg.priceImpactMultiplier * 100) \div 8 ELSE 0

\* The hop term: (hops - 1) * 25 when hops > 1.
HopAdjustment(hops) == IF hops > 1 THEN (hops - 1) * 25 ELSE 0

\* The volatility factor never applied.
VolatilityIgnored(cfg, a, exchanges) == a

\* Math.floor(adaptiveSlippage * volatilityFactor) when the route uses a
\* volatile exchange.
VolatilityAdjusted(cfg, a, exchanges) ==
    IF exchanges \cap volatileDexes # {}
    THEN (a * cfg.volatilityFactorQ) \div 4
    ELSE a

\* The same function with the upper clamp (Math.min) left out.
calculateAdaptiveSlippageNoUpperClamp(cfg, impactQ, routeInfo) ==
    Max(cfg.min,
        VolatilityAdjusted(cfg,
            cfg.base + PriceImpactAdjustment(cfg, impactQ) + HopAdjustment(routeInfo.hops),
            routeInfo.exchanges))

calculateAdaptiveSlippage(cfg, impactQ, routeInfo) ==
    LET a0 == cfg.base
        a1 == a0 + PriceImpactAdjustment(cfg, impactQ)
        a2 == a1 + HopAdjustment(routeInfo.hops)
        a3 == VolatilityAdjusted(cfg, a2, routeInfo.exchanges)
    IN  Max(cfg.min, Min(cfg.max, a3))

SlipOptions ==
    [ baseSlippage : BaseSlippageOptions,
      minSlippage : MinSlippageOptions,
      maxSlippage : MaxSlippageOptions,
      priceImpactMultiplier : MultiplierOptions,
      volatilityFactorQ : VolatilityQOptions ]

NoSlipArgs == [impactQ |-> 0, routeInfo |-> [hops |-> 0, exchanges |-> {}]]

SlipStart ==
    /\ \E o \in SlipOptions : slippageConfig = QuoteServiceSlippageConfig(o)
    /\ slipArgs = NoSlipArgs
    /\ adaptiveSlippage = 0
    /\ slipPc = "constructed"

SlipCall ==
    /\ slipPc = "constructed"
    /\ \E q \in 0..MaxImpactQ, h \in 0..MaxHops, ex \in SUBSET ExchangeLabels :
        /\ slipArgs' = [impactQ |-> q, routeInfo |-> [hops |-> h, exchanges |-> ex]]
        /\ adaptiveSlippage' =
              calculateAdaptiveSlippage(slippageConfig, q, [hops |-> h, exchanges |-> ex])
    /\ slipPc' = "returned"
    /\ UNCHANGED slippageConfig

SlipIdle ==
    /\ slippageConfig = QuoteServiceSlippageConfig(
            [baseSlippage |-> 0, minSlippage |-> 0, maxSlippage |-> 0,
             priceImpactMultiplier |-> 0, volatilityFactorQ |-> 0])
    /\ slipArgs = NoSlipArgs
    /\ adaptiveSlippage = 0
    /\ slipPc = "idle"

(***************************************************************************)
(* The swap run: constants, per-script configuration, validation           *)
(***************************************************************************)
LAMPORTS_PER_SOL == 1000000000

\* The lamports the documented figure of 0.0000001 SOL amounts to.
SWAP_AMOUNT_AS_DOCUMENTED == LAMPORTS_PER_SOL \div 10000000

SWAP_AMOUNT == 100000
DEFAULT_SLIPPAGE_BPS == 100          \* core-swap.js
LEGACY_SLIPPAGE_BPS == 50            \* jupiter-swap.js: DEFAULT_SLIPPAGE_BPS
SERVER_SLIPPAGE_BPS == 50            \* POST /swap: DEFAULT_SLIPPAGE_BPS
rentReserve == 2039280
feeBuffer == 500000
maxAttempts == 3
SEND_RETRY_DELAY_MS == 1000
FALLBACK_PRIORITY_FEE == 5000
SECRET_KEY_LENGTH == 64
PUBLIC_KEY_LENGTH == 32
MAX_FEE_BPS == 10000
SERVER_MIN_LAMPORTS == 1000000       \* sol < 0.001, sol = balance / LAMPORTS_PER_SOL

CliEntries == {"index", "jupiter-swap", "jupiter-swap-wrapper", "swap-no-priority",
               "swap-priority"}
Entries == CliEntries \cup {"server"}

NotGiven == <<>>
Given(b) == <<b>>

\* CoreSwap's constructor: `options.x ?? default` for each option.
CoreSwapOptions(o) ==
    [ useSharedAccounts |->
          IF o.useSharedAccounts = NotGiven THEN FALSE ELSE o.useSharedAccounts[1],
      onlyDirectRoutes |->
          IF o.onlyDirectRoutes = NotGiven THEN TRUE ELSE o.onlyDirectRoutes[1],
      includeDetailedBalance |->
          IF o.includeDetailedBalance = NotGiven THEN FALSE ELSE o.includeDetailedBalance[1] ]

Auto == [kind |-> "auto", v |-> 0]
Micro(n) == [kind |-> "number", v |-> n]
Absent == [kind |-> "absent", v |-> 0]

\* What each script builds and how it calls performSwap.
\*   class: CoreSwap, or the JupiterSwapBot class jupiter-swap.js defines itself
\*   guarded: main() runs only if import.meta.url === `file://${process.argv[1]}`
Program(e) ==
    CASE e = "index" ->
            [ class |-> "CoreSwap",
              options |-> CoreSwapOptions([useSharedAccounts |-> Given(FALSE),
                                           onlyDirectRoutes |-> Given(TRUE),
                                           includeDetailedBalance |-> Given(TRUE)]),
              guarded |-> FALSE, fetchesPriorityFee |-> FALSE, priorityFee |-> Auto ]
      [] e = "swap-no-priority" ->
            [ class |-> "CoreSwap",
              options |-> CoreSwapOptions([useSharedAccounts |-> NotGiven,
                                           onlyDirectRoutes |-> NotGiven,
                                           includeDetailedBalance |-> NotGiven]),
              guarded |-> TRUE, fetchesPriorityFee |-> FALSE, priorityFee |-> Micro(0) ]
      [] e = "swap-priority" ->
            [ class |-> "CoreSwap",
              options |-> CoreSwapOptions([useSharedAccounts |-> NotGiven,
                                           onlyDirectRoutes |-> NotGiven,
                                           includeDetailedBalance |-> Given(FALSE)]),
              guarded |-> FALSE, fetchesPriorityFee |-> TRUE, priorityFee |-> Auto ]
      [] e = "jupiter-swap-wrapper" ->
            [ class |-> "CoreSwap",
              options |-> CoreSwapOptions([useSharedAccounts |-> Given(TRUE),
                                           onlyDirectRoutes |-> Given(FALSE),
                                           includeDetailedBalance |-> Given(FALSE)]),
              guarded |-> TRUE, fetchesPriorityFee |-> FALSE, priorityFee |-> Auto ]
      [] e = "jupiter-swap" ->
            [ class |-> "JupiterSwapBot",
              options |-> [useSharedAccounts |-> TRUE, onlyDirectRoutes |-> FALSE,
                           includeDetailedBalance |-> FALSE],
              guarded |-> TRUE, fetchesPriorityFee |-> FALSE, priorityFee |-> Auto ]
      [] OTHER ->
            [ class |-> "server",
              options |-> [useSharedAccounts |-> FALSE, onlyDirectRoutes |-> TRUE,
                           includeDetailedBalance |-> FALSE],
              guarded |-> FALSE, fetchesPriorityFee |-> FALSE, priorityFee |-> Absent ]

RECURSIVE PercentEncode(_)
\* The path part of a file URL: a space becomes %20.
PercentEncode(path) ==
    IF path = <<>> THEN <<>>
    ELSE (IF Head(path) = " " THEN <<"%", "2", "0">> ELSE <<Head(path)>>)
            \o PercentEncode(Tail(path))

FileScheme == <<"f", "i", "l", "e", ":", "/", "/">>

\* import.meta.url of the script started as `node <path>`.
ImportMetaUrl(path) == FileScheme \o PercentEncode(path)

\* import.meta.url === `file://${process.argv[1]}`
IsMainModule(path) == ImportMetaUrl(path) = FileScheme \o path

\* Whether the module body calls main().
RunsMain(e, path) == Program(e).guarded => IsMainModule(path)

\* privateKeyBytes.length !== 64
SecretKeyLengthOk(bytes) == Len(bytes) = SECRET_KEY_LENGTH

\* A key check that only decodes: any length, no key pair built.
PrivateKeyOkAnyLength(v, derives) ==
    v.t = "string" /\ ~bs58decode(JsString(v)).threw

\* bs58.decode, the length check and Keypair.fromSecretKey, which throws on
\* 64 bytes whose public half does not belong to the secret half.
PrivateKeyOk(v, derives) ==
    LET d == bs58decode(JsString(v))
    IN  /\ v.t = "string"
        /\ ~d.threw
        /\ SecretKeyLengthOk(d.bytes)
        /\ derives

\* new PublicKey(string): bs58.decode, then exactly 32 bytes.
PublicKeyOk(v) ==
    LET d == bs58decode(JsString(v))
    IN  v.t = "string" /\ ~d.threw /\ Len(d.bytes) = PUBLIC_KEY_LENGTH

\* The fee check without its upper bound.
FeeBpsOkNoUpperBound(v) ==
    LET f == parseInt(v) IN ~f.nan /\ f.v >= 0

\* !(isNaN(feeBps) || feeBps < 0 || feeBps > 10000), feeBps = parseInt(v)
FeeBpsOk(v) ==
    LET f == parseInt(v) IN ~(f.nan \/ f.v < 0 \/ f.v > MAX_FEE_BPS)

Passed == [ok |-> TRUE, error |-> ""]
Threw(msg) == [ok |-> FALSE, error |-> msg]

\* CoreSwap.validateEnvironment (and JupiterSwapBot's copy of it).
validateEnvironment(env) ==
    IF Falsy(env.privateKey) \/ Falsy(env.feeRecipient) \/ Falsy(env.feeBps)
    THEN Threw("Missing environment variables")
    ELSE IF ~PrivateKeyOk(env.privateKey, env.keyDerives)
    THEN Threw("Invalid private key")
    ELSE IF ~PublicKeyOk(env.feeRecipient)
    THEN Threw("Invalid fee recipient address")
    ELSE IF ~FeeBpsOk(env.feeBps)
    THEN Threw("Fee basis points must be between 0 and 10000")
    ELSE Passed

\* A validation that lets every request through.
validateRequestAcceptsAll(body) == Passed

\* The validation at the head of the POST /swap handler; every failure is
\* answered with status 400.
validateRequest(body) ==
    IF Falsy(body.privateKey) \/ Falsy(body.feeRecipient) \/ Falsy(body.feeBps)
    THEN Threw("Missing required fields")
    ELSE IF ~PrivateKeyOk(body.privateKey, body.keyDerives)
    THEN Threw("Invalid private key")
    ELSE IF ~PublicKeyOk(body.feeRecipient)
    THEN Threw("Invalid fee recipient address")
    ELSE IF ~FeeBpsOk(body.feeBps)
    THEN Threw("Fee basis points must be between 0 and 10000")
    ELSE Passed

\* The platform fee a request carries: none, or <<bps, account>>.
NoFee == <<>>
FeeOf(env) == <<parseInt(env.feeBps).v, env.feeRecipient.s>>

\* The query of the Jupiter quote request.
QuoteParams(e, env) ==
    CASE Program(e).class = "CoreSwap" ->
            [ amount |-> SWAP_AMOUNT, slippageBps |-> DEFAULT_SLIPPAGE_BPS,
              onlyDirectRoutes |-> FALSE, fee |-> NoFee ]
      [] Program(e).class = "JupiterSwapBot" ->
            [ amount |-> SWAP_AMOUNT, slippageBps |-> LEGACY_SLIPPAGE_BPS,
              onlyDirectRoutes |-> FALSE, fee |-> FeeOf(env) ]
      [] OTHER ->
            [ amount |-> SWAP_AMOUNT, slippageBps |-> SERVER_SLIPPAGE_BPS,
              onlyDirectRoutes |-> TRUE, fee |-> FeeOf(env) ]

\* swapPayload.computeUnitPriceMicroLamports as CoreSwap.createSwapTransaction
\* sets it from its priorityFeeMicroLamports argument.
ComputeUnitPrice(p) ==
    IF p.kind = "number" /\ p.v > 0 THEN p
    ELSE IF p.kind = "auto" THEN Auto
    ELSE IF p.kind = "number" /\ p.v = 0 THEN Micro(0)
    ELSE Absent

\* The body of the Jupiter swap request.
SwapPayload(e, env, q, p) ==
    CASE Program(e).class = "CoreSwap" ->
            [ quoteResponse |-> q, useSharedAccounts |-> Program(e).options.useSharedAccounts,
              feeAccount |-> <<>>, computeUnitPriceMicroLamports |-> ComputeUnitPrice(p) ]
      [] Program(e).class = "JupiterSwapBot" ->
            [ quoteResponse |-> q, useSharedAccounts |-> TRUE,
              feeAccount |-> <<env.feeRecipient.s>>, computeUnitPriceMicroLamports |-> Auto ]
      [] OTHER ->
            [ quoteResponse |-> q, useSharedAccounts |-> FALSE,
              feeAccount |-> <<env.feeRecipient.s>>, computeUnitPriceMicroLamports |-> Absent ]

RECURSIVE StripTrailingZeros(_)
StripTrailingZeros(ds) ==
    IF ds # <<>> /\ ds[Len(ds)] = "0" THEN StripTrailingZeros(SubSeq(ds, 1, Len(ds) - 1))
    ELSE ds

\* `${lamports / LAMPORTS_PER_SOL}`: the decimal the logs print for an
\* amount in SOL.  A value below 10^-6 is printed with an exponent.
SolString(lamports) ==
    LET ds == NatToString(lamports)
        sig == StripTrailingZeros(ds)
        whole == NatToString(lamports \div LAMPORTS_PER_SOL)
        nine == [i \in 1..9 |-> IF i <= 9 - Len(ds) THEN "0" ELSE ds[i - (9 - Len(ds))]]
        frac == StripTrailingZeros(IF Len(ds) >= 9 THEN SubSeq(ds, Len(ds) - 8, Len(ds))
                                   ELSE nine)
    IN  IF lamports = 0 THEN <<"0">>
        ELSE IF lamports < 1000
        THEN <<sig[1]>> \o (IF Len(sig) > 1 THEN <<".">> \o Tail(sig) ELSE <<>>)
             \o <<"e", "-">> \o NatToString(10 - Len(ds))
        ELSE IF frac = <<>> THEN whole
        ELSE whole \o <<".">> \o frac

\* A balance check that always passes.
BalanceErrorNever(e, b) == ""

\* The balance check: "" when it passes, else the error it throws.
BalanceError(e, b) ==
    CASE Program(e).class = "CoreSwap" /\ Program(e).options.includeDetailedBalance ->
            IF b < SWAP_AMOUNT THEN "Insufficient balance for swap"
            ELSE IF b < SWAP_AMOUNT + rentReserve + feeBuffer
                 THEN "Insufficient balance for swap + fees"
                 ELSE ""
      [] Program(e).class = "server" ->
            IF b < SERVER_MIN_LAMPORTS THEN "Insufficient SOL balance" ELSE ""
      [] OTHER ->
            IF b < SWAP_AMOUNT THEN "Insufficient balance" ELSE ""

RECURSIVE InsertSorted(_, _)
InsertSorted(x, s) ==
    IF s = <<>> THEN <<x>>
    ELSE IF x <= Head(s) THEN <<x>> \o s
    ELSE <<Head(s)>> \o InsertSorted(x, Tail(s))

RECURSIVE SortedPositive(_)
\* fees.filter(fee => fee > 0).sort((a, b) => a - b)
SortedPositive(fees) ==
    IF fees = <<>> THEN <<>>
    ELSE IF Head(fees) > 0 THEN InsertSorted(Head(fees), SortedPositive(Tail(fees)))
    ELSE SortedPositive(Tail(fees))

\* fetchPriorityFee: the median of the positive recent fees, else 5000.
\* `threw`: getRecentPrioritizationFees rejected.
fetchPriorityFee(threw, fees) ==
    LET sortedFees == SortedPositive(fees)
    IN  IF ~threw /\ sortedFees # <<>>
        THEN sortedFees[(Len(sortedFees) \div 2) + 1]
        ELSE FALLBACK_PRIORITY_FEE

(***************************************************************************)
(* The swap run: inputs                                                    *)
(***************************************************************************)
ScriptPaths == { <<"/", "s">>, <<"/", "a", " ", "/", "s">> }

PrivateKeyInputs ==
    { Undefined, Str(<<>>), Str(<<"0">>),
      Str(Ones(SECRET_KEY_LENGTH - 1)), Str(Ones(SECRET_KEY_LENGTH)),
      Str(Ones(SECRET_KEY_LENGTH + 1)),
      Str(Ones(SECRET_KEY_LENGTH - 2) \o <<"5", "R">>),
      Str(Ones(SECRET_KEY_LENGTH - 1) \o <<"5", "R">>) }

FeeRecipientInputs ==
    { Undefined, Str(<<"0", "O">>),
      Str(Ones(PUBLIC_KEY_LENGTH)), Str(Ones(PUBLIC_KEY_LENGTH - 1)) }

FeeBpsStrings ==
    { <<>>, <<"0">>, <<"-", "0">>, <<"-", "1">>, <<"3", "0">>,
      <<"1", "0", "0", "0", "0">>, <<"1", "0", "0", "0", "1">>,
      <<"a", "b", "c">>, <<"1", "2", "a">>, <<" ", "4", "2">>, <<"0", "x", "1", "0">> }

FeeBpsNumbers == {-1, 0, 30, MAX_FEE_BPS, MAX_FEE_BPS + 1}

\* process.env holds strings only; a JSON body holds numbers too.
FeeBpsInputs(e) ==
    {Undefined} \cup {Str(s) : s \in FeeBpsStrings}
        \cup (IF e = "server" THEN {Num(n) : n \in FeeBpsNumbers} ELSE {})

\* Whether Keypair.fromSecretKey accepts the key is a property of its bytes
\* that only a key of the right length can have.
KeyDerivesInputs(k) ==
    IF k.t = "string" /\ ~bs58decode(k.s).threw /\ Len(bs58decode(k.s).bytes) = SECRET_KEY_LENGTH
    THEN BOOLEAN ELSE {FALSE}

BalanceInputs ==
    { 0, SWAP_AMOUNT - 1, SWAP_AMOUNT, SERVER_MIN_LAMPORTS - 1, SERVER_MIN_LAMPORTS,
      SWAP_AMOUNT + rentReserve + feeBuffer - 1, SWAP_AMOUNT + rentReserve + feeBuffer }

FeeSamples == { <<>>, <<0, 0>>, <<0, 3000>>, <<7000, 1000, 3000>>, <<9000, 2000>> }

QuoteInputs == { [outAmount |-> 15000] }

RunInit ==
    /\ entry \in Entries
    /\ scriptPath \in (IF entry = "server" THEN {<<"/", "s">>} ELSE ScriptPaths)
    /\ \E k \in PrivateKeyInputs, r \in FeeRecipientInputs :
         \E f \in FeeBpsInputs(entry), d \in KeyDerivesInputs(k) :
            input = [privateKey |-> k, feeRecipient |-> r, feeBps |-> f, keyDerives |-> d]
    /\ pc = IF entry = "server" THEN "request" ELSE "module"
    /\ keypair = FALSE
    /\ connection = FALSE
    /\ priorityFee = Absent
    /\ balance = 0
    /\ quote = [outAmount |-> 0]
    /\ swapTransaction = "none"
    /\ calls = <<>>
    /\ waits = <<>>
    /\ attempts = 0
    /\ swapOutcome = "none"
    /\ errorMessage = ""
    /\ exitStatus = <<>>
    /\ responses = <<>>

RunIdle ==
    /\ entry = "none"
    /\ scriptPath = <<>>
    /\ input = [privateKey |-> Undefined, feeRecipient |-> Undefined,
                feeBps |-> Undefined, keyDerives |-> FALSE]
    /\ pc = "none"
    /\ keypair = FALSE
    /\ connection = FALSE
    /\ priorityFee = Absent
    /\ balance = 0
    /\ quote = [outAmount |-> 0]
    /\ swapTransaction = "none"
    /\ calls = <<>>
    /\ waits = <<>>
    /\ attempts = 0
    /\ swapOutcome = "none"
    /\ errorMessage = ""
    /\ exitStatus = <<>>
    /\ responses = <<>>

\* A request goes out: it is logged, its outcome pending.
Issue(log, api, req) == Append(log, [api |-> api, req |-> req, res |-> "pending"])
\* The pending request settles.
Settle(res) == [calls EXCEPT ![Len(calls)].res = res]

NoReq == <<>>

(***************************************************************************)
(* The CLI process.  An action is what runs between two awaits: it takes   *)
(* the outcome of the call the run is waiting for, runs the code that      *)
(* follows and issues the next call.  A rejected await reaches main()'s    *)
(* catch, which calls process.exit(1), in the same turn.                   *)
(***************************************************************************)
AwaitedCalls ==
    { "getRecentPrioritizationFees", "getBalance", "quote", "swap",
      "simulateTransaction", "sendTransaction", "retryDelay", "confirmTransaction" }

\* performSwap rejects with msg and main() exits with status 1.
Fatal(msg, log) ==
    /\ calls' = log
    /\ swapOutcome' = "rejected"
    /\ errorMessage' = msg
    /\ exitStatus' = <<1>>
    /\ pc' = "exited"

\* A retry the code does not have: the failed request is issued again, up to
\* three attempts in all.
RequestFailedRetrying(msg, log) ==
    IF Cardinality({i \in 1..Len(log) : log[i].api = log[Len(log)].api}) < 3
    THEN /\ calls' = Issue(log, log[Len(log)].api, log[Len(log)].req)
         /\ UNCHANGED <<swapOutcome, errorMessage, exitStatus, pc>>
    ELSE Fatal(msg, log)

\* The catch block of getQuote and of createSwapTransaction: the error is
\* rethrown under a new message; nothing is tried again.
RequestFailed(msg, log) == Fatal(msg, log)

\* The module body: the signal handlers are installed and main() is called,
\* in jupiter-swap.js and swap-no-priority.js only behind the guard.
ModuleBody ==
    /\ pc = "module"
    /\ pc' = IF RunsMain(entry, scriptPath) THEN "main" ELSE "idle"
    /\ UNCHANGED <<runInputs, keypair, connection, priorityFee, balance, quote,
                   swapTransaction, calls, waits, attempts, swapOutcome, errorMessage,
                   exitStatus, responses>>

\* main() was not called: nothing is pending and the process ends by itself.
EventLoopEmpty ==
    /\ pc = "idle"
    /\ exitStatus' = <<0>>
    /\ pc' = "exited"
    /\ UNCHANGED <<runInputs, keypair, connection, priorityFee, balance, quote,
                   swapTransaction, calls, waits, attempts, swapOutcome, errorMessage,
                   responses>>

\* main() up to its first await: the constructor (validateEnvironment, then
\* initializeConnection), then fetchPriorityFee or performSwap's checkBalance.
Main ==
    /\ pc = "main"
    /\ LET v == validateEnvironment(input)
       IN  IF ~v.ok
           THEN /\ keypair' = (v.error \notin {"Missing environment variables",
                                               "Invalid private key"})
                /\ connection' = FALSE
                /\ errorMessage' = v.error
                /\ exitStatus' = <<1>>
                /\ pc' = "exited"
                /\ UNCHANGED <<calls, swapOutcome, priorityFee>>
           ELSE /\ keypair' = TRUE
                /\ connection' = TRUE
                /\ UNCHANGED <<errorMessage, exitStatus>>
                /\ IF Program(entry).fetchesPriorityFee
                   THEN /\ calls' = Issue(calls, "getRecentPrioritizationFees", NoReq)
                        /\ pc' = "getRecentPrioritizationFees"
                        /\ UNCHANGED <<swapOutcome, priorityFee>>
                   ELSE /\ calls' = Issue(calls, "getBalance", NoReq)
                        /\ pc' = "getBalance"
                        /\ swapOutcome' = "pending"
                        /\ priorityFee' = Program(entry).priorityFee
    /\ UNCHANGED <<runInputs, balance, quote, swapTransaction, waits, attempts, responses>>

\* fetchPriorityFee returns and performSwap({ priorityFeeMicroLamports }) starts.
FetchPriorityFee ==
    /\ pc = "getRecentPrioritizationFees"
    /\ \E threw \in BOOLEAN, fees \in FeeSamples :
        /\ threw => fees = <<>>
        /\ priorityFee' = Micro(fetchPriorityFee(threw, fees))
        /\ calls' = Issue(Settle(IF threw THEN "error" ELSE "ok"), "getBalance", NoReq)
    /\ swapOutcome' = "pending"
    /\ pc' = "getBalance"
    /\ UNCHANGED <<runInputs, keypair, connection, balance, quote, swapTransaction, waits,
                   attempts, errorMessage, exitStatus, responses>>

\* checkBalance after getBalance settles, then getQuote's request.
CheckBalance ==
    /\ pc = "getBalance"
    /\ entry \in CliEntries
    /\ \/ /\ Fatal("getBalance failed", Settle("error"))
          /\ UNCHANGED balance
       \/ \E b \in BalanceInputs :
            /\ balance' = b
            /\ IF BalanceError(entry, b) # ""
               THEN Fatal(BalanceError(entry, b), Settle("ok"))
               ELSE /\ calls' = Issue(Settle("ok"), "quote", QuoteParams(entry, input))
                    /\ pc' = "quote"
                    /\ UNCHANGED <<swapOutcome, errorMessage, exitStatus>>
    /\ UNCHANGED <<runInputs, keypair, connection, priorityFee, quote, swapTransaction,
                   waits, attempts, responses>>

\* getQuote after the quote request settles, then createSwapTransaction's
\* request.  "invalid": a response without outAmount.
GetQuote ==
    /\ pc = "quote"
    /\ entry \in CliEntries
    /\ \/ /\ \E res \in {"error", "invalid"} : RequestFailed("Quote request failed", Settle(res))
          /\ UNCHANGED quote
       \/ \E q \in QuoteInputs :
            /\ quote' = q
            /\ calls' = Issue(Settle("ok"), "swap", SwapPayload(entry, input, q, priorityFee))
            /\ pc' = "swap"
            /\ UNCHANGED <<swapOutcome, errorMessage, exitStatus>>
    /\ UNCHANGED <<runInputs, keypair, connection, priorityFee, balance, swapTransaction,
                   waits, attempts, responses>>

\* The options executeSwap passes to simulateTransaction.
SimulationOptions(e) ==
    IF Program(e).class = "CoreSwap" /\ Program(e).options.includeDetailedBalance
    THEN <<"replaceRecentBlockhash", "sigVerify: false">>
    ELSE <<>>

\* createSwapTransaction after the swap request settles, then executeSwap up
\* to its first await: deserialize, sign, simulateTransaction.
\* "missing": a response without swapTransaction; "garbage": one that
\* VersionedTransaction.deserialize rejects.
CreateSwapTransaction ==
    /\ pc = "swap"
    /\ entry \in CliEntries
    /\ \/ /\ \E res \in {"error", "missing"} :
                RequestFailed("Swap transaction creation failed", Settle(res))
          /\ UNCHANGED swapTransaction
       \/ /\ swapTransaction' = "garbage"
          /\ Fatal("Transaction execution failed", Settle("ok"))
       \/ /\ swapTransaction' = "signed"
          /\ calls' = Issue(Settle("ok"), "simulateTransaction", SimulationOptions(entry))
          /\ pc' = "simulateTransaction"
          /\ UNCHANGED <<swapOutcome, errorMessage, exitStatus>>
    /\ UNCHANGED <<runInputs, keypair, connection, priorityFee, balance, quote, waits,
                   attempts, responses>>

\* The transaction signed anew for every attempt of the send loop.
SignedPerAttempt(tx, failed) == [transaction |-> tx, signing |-> failed + 1]

\* The transaction the send loop passes to sendTransaction after `failed`
\* failed attempts: the object deserialized from the swap response and
\* signed once, before the simulation; the loop neither builds nor signs.
SignedTransaction(tx, failed) == [transaction |-> tx, signing |-> 1]

\* A simulation gate that ignores simulationResult.value.err.
SimulationPassesIgnoringErr(res) == res \in {"ok", "err"}

\* Whether executeSwap goes on to send after a simulation result.
SimulationPasses(res) == res = "ok"

\* executeSwap after simulateTransaction settles: "threw" (the RPC call
\* rejected), "err" (simulationResult.value.err is set) or "ok"; then the
\* first sendTransaction.
SimulateTransaction ==
    /\ pc = "simulateTransaction"
    /\ \E res \in {"threw", "err", "ok"} :
         IF SimulationPasses(res)
         THEN /\ calls' = Issue(Settle(res), "sendTransaction",
                                 SignedTransaction(swapTransaction, 0))
              /\ pc' = "sendTransaction"
              /\ UNCHANGED <<swapOutcome, errorMessage, exitStatus>>
         ELSE Fatal("Transaction execution failed", Settle(res))
    /\ attempts' = 0
    /\ UNCHANGED <<runInputs, keypair, connection, priorityFee, balance, quote,
                   swapTransaction, waits, responses>>

\* An exit test that allows one attempt more.
SendGivesUpLate(n) == n = maxAttempts + 1

\* The send loop's exit test after a failed attempt.
SendGivesUp(n) == n = maxAttempts

\* The send loop after one sendTransaction settles: a signature ends the
\* loop and confirmTransaction is called; a failure counts an attempt and
\* either rethrows (the third) or waits one second.
SendTransaction ==
    /\ pc = "sendTransaction"
    /\ entry \in CliEntries
    /\ \/ /\ calls' = Issue(Settle("ok"), "confirmTransaction", "signature")
          /\ pc' = "confirmTransaction"
          /\ UNCHANGED <<attempts, waits, swapOutcome, errorMessage, exitStatus>>
       \/ /\ attempts' = attempts + 1
          /\ IF SendGivesUp(attempts + 1)
             THEN /\ Fatal("Transaction execution failed", Settle("error"))
                  /\ UNCHANGED waits
             ELSE /\ calls' = Settle("error")
                  /\ waits' = Append(waits, SEND_RETRY_DELAY_MS)
                  /\ pc' = "retryDelay"
                  /\ UNCHANGED <<swapOutcome, errorMessage, exitStatus>>
    /\ UNCHANGED <<runInputs, keypair, connection, priorityFee, balance, quote,
                   swapTransaction, responses>>

\* The one-second timer fires and the loop sends again.
RetryDelay ==
    /\ pc = "retryDelay"
    /\ calls' = Issue(calls, "sendTransaction", SignedTransaction(swapTransaction, attempts))
    /\ pc' = "sendTransaction"
    /\ UNCHANGED <<runInputs, keypair, connection, priorityFee, balance, quote,
                   swapTransaction, waits, attempts, swapOutcome, errorMessage, exitStatus,
                   responses>>

\* executeSwap after confirmTransaction settles: "threw", "err"
\* (confirmation.value.err is set) or "ok"; on "ok" performSwap resolves and
\* main() calls process.exit(0).
ConfirmTransaction ==
    /\ pc = "confirmTransaction"
    /\ entry \in CliEntries
    /\ \/ \E res \in {"threw", "err"} : Fatal("Transaction execution failed", Settle(res))
       \/ /\ calls' = Settle("ok")
          /\ swapOutcome' = "resolved"
          /\ exitStatus' = <<0>>
          /\ pc' = "exited"
          /\ UNCHANGED errorMessage
    /\ UNCHANGED <<runInputs, keypair, connection, priorityFee, balance, quote,
                   swapTransaction, waits, attempts, responses>>

\* SIGINT or SIGTERM: the handler runs at the next turn of the event loop,
\* that is while the run waits for a call, and calls process.exit(1).
Signal ==
    /\ entry \in CliEntries
    /\ pc \in AwaitedCalls
    /\ exitStatus' = <<1>>
    /\ errorMessage' = "Interrupted"
    /\ pc' = "exited"
    /\ UNCHANGED <<runInputs, keypair, connection, priorityFee, balance, quote,
                   swapTransaction, calls, waits, attempts, swapOutcome, responses>>

(***************************************************************************)
(* The POST /swap handler, one request                                     *)
(***************************************************************************)
\* res.status(status).json({ error, logs }); the handler returns.
Respond(status, msg, log) ==
    /\ responses' = Append(responses, [status |-> status, success |-> FALSE, error |-> msg])
    /\ calls' = log
    /\ pc' = "responded"

\* The handler up to its first await: validation, new Connection, getBalance.
PostSwap ==
    /\ pc = "request"
    /\ LET v == validateRequest(input)
       IN  IF ~v.ok
           THEN /\ Respond(400, v.error, calls)
                /\ keypair' = (v.error \notin {"Missing required fields",
                                               "Invalid private key"})
                /\ connection' = FALSE
           ELSE /\ keypair' = TRUE
                /\ connection' = TRUE
                /\ calls' = Issue(calls, "getBalance", NoReq)
                /\ pc' = "getBalance"
                /\ UNCHANGED responses
    /\ UNCHANGED <<runInputs, priorityFee, balance, quote, swapTransaction, waits, attempts,
                   swapOutcome, errorMessage, exitStatus>>

\* After getBalance: a rejection reaches the outer catch (500); a balance
\* under 0.001 SOL is answered 400; else the quote request goes out.
PostSwapBalance ==
    /\ pc = "getBalance"
    /\ entry = "server"
    /\ \/ /\ Respond(500, "getBalance failed", Settle("error"))
          /\ UNCHANGED balance
       \/ \E b \in BalanceInputs :
            /\ balance' = b
            /\ IF BalanceError(entry, b) # ""
               THEN Respond(400, BalanceError(entry, b), Settle("ok"))
               ELSE /\ calls' = Issue(Settle("ok"), "quote", QuoteParams(entry, input))
                    /\ pc' = "quote"
                    /\ UNCHANGED responses
    /\ UNCHANGED <<runInputs, keypair, connection, priorityFee, quote, swapTransaction,
                   waits, attempts, swapOutcome, errorMessage, exitStatus>>

PostSwapQuote ==
    /\ pc = "quote"
    /\ entry = "server"
    /\ \/ /\ \E res \in {"error", "invalid"} : Respond(500, "Quote request failed", Settle(res))
          /\ UNCHANGED quote
       \/ \E q \in QuoteInputs :
            /\ quote' = q
            /\ calls' = Issue(Settle("ok"), "swap", SwapPayload(entry, input, q, priorityFee))
            /\ pc' = "swap"
            /\ UNCHANGED responses
    /\ UNCHANGED <<runInputs, keypair, connection, priorityFee, balance, swapTransaction,
                   waits, attempts, swapOutcome, errorMessage, exitStatus>>

\* After the swap request: deserialize, sign and send; the handler does not
\* simulate and sends once.
PostSwapTransaction ==
    /\ pc = "swap"
    /\ entry = "server"
    /\ \/ /\ \E res \in {"error", "missing"} :
                Respond(500, "Swap transaction creation failed", Settle(res))
          /\ UNCHANGED swapTransaction
       \/ /\ swapTransaction' = "garbage"
          /\ Respond(500, "Transaction execution failed", Settle("ok"))
       \/ /\ swapTransaction' = "signed"
          /\ calls' = Issue(Settle("ok"), "sendTransaction", SignedTransaction("signed", 0))
          /\ pc' = "sendTransaction"
          /\ UNCHANGED responses
    /\ UNCHANGED <<runInputs, keypair, connection, priorityFee, balance, quote, waits,
                   attempts, swapOutcome, errorMessage, exitStatus>>

PostSwapSent ==
    /\ pc = "sendTransaction"
    /\ entry = "server"
    /\ \/ Respond(500, "Transaction execution failed", Settle("error"))
       \/ /\ calls' = Issue(Settle("ok"), "confirmTransaction", "signature")
          /\ pc' = "confirmTransaction"
          /\ UNCHANGED responses
    /\ UNCHANGED <<runInputs, keypair, connection, priorityFee, balance, quote,
                   swapTransaction, waits, attempts, swapOutcome, errorMessage, exitStatus>>

PostSwapConfirmed ==
    /\ pc = "confirmTransaction"
    /\ entry = "server"
    /\ \/ \E res \in {"threw", "err"} :
            Respond(500, "Transaction execution failed", Settle(res))
       \/ /\ responses' = Append(responses, [status |-> 200, success |-> TRUE, error |-> ""])
          /\ calls' = Settle("ok")
          /\ pc' = "responded"
    /\ UNCHANGED <<runInputs, keypair, connection, priorityFee, balance, quote,
                   swapTransaction, waits, attempts, swapOutcome, errorMessage, exitStatus>>

(***************************************************************************)
(* QuoteService.getQuote and createSwapTransaction: cache and retry loop    *)
(***************************************************************************)
MaxQuoteCalls == 2
MaxQuoteNow == 20000

RetriesOptions == {0, 1, 2, 4}
CacheTimeoutOptions == {0, 5000}
DEFAULT_RETRIES == 3
DEFAULT_TIMEOUT == 10000
DEFAULT_QUOTE_CACHE_TIMEOUT == 15000
BACKOFF_UNIT_MS == 1000
\* The clock advances in steps of a third of the default cache life.
QuoteTickMs == DEFAULT_QUOTE_CACHE_TIMEOUT \div 3

EmptyMap == [k \in {} |-> 0]
MapSet(m, k, v) == [x \in DOMAIN m \cup {k} |-> IF x = k THEN v ELSE m[x]]

\* The constructor: `options.x || default`; an option of 0 is one not given
\* or given as 0.
QuoteServiceConstructor(o) ==
    [ options |-> o,
      timeout |-> OrDefault(o.timeout, DEFAULT_TIMEOUT),
      retries |-> OrDefault(o.retries, DEFAULT_RETRIES),
      cacheTimeout |-> OrDefault(o.cacheTimeout, DEFAULT_QUOTE_CACHE_TIMEOUT),
      base |-> OrDefault(o.baseSlippage, 100) ]

QuoteServiceOptions ==
    [ timeout : {0}, retries : RetriesOptions, cacheTimeout : CacheTimeoutOptions,
      baseSlippage : {0} ]

\* getQuote's parameters: slippageBps defaults to the configured base and
\* onlyDirectRoutes to false when not given.
GetQuoteParams ==
    [ inputMint : {"SOL"}, outputMint : {"USDC"}, amount : {100},
      slippageBps : {NotGiven, Given(50)}, onlyDirectRoutes : {NotGiven},
      platformFeeBps : {0, 30} ]

SlippageBpsOf(p) ==
    IF p.slippageBps = NotGiven THEN quoteService.base ELSE p.slippageBps[1]
OnlyDirectRoutesOf(p) ==
    IF p.onlyDirectRoutes = NotGiven THEN FALSE ELSE p.onlyDirectRoutes[1]

\* `quote_${inputMint}_${outputMint}_${amount}_${slippageBps}_${onlyDirectRoutes}`
QuoteCacheKey(p) ==
    <<"quote", p.inputMint, p.outputMint, p.amount, SlippageBpsOf(p), OnlyDirectRoutesOf(p)>>

\* requestParams: what the HTTP request asks Jupiter for.  platformFeeBps is
\* sent when it is truthy (the calls that give one give a feeAccount too).
RequestParams(p) ==
    [ inputMint |-> p.inputMint, outputMint |-> p.outputMint, amount |-> p.amount,
      slippageBps |-> SlippageBpsOf(p), onlyDirectRoutes |-> OnlyDirectRoutesOf(p),
      platformFeeBps |-> p.platformFeeBps ]

\* The cache holds an entry for the key, whatever its age.
QuoteCacheHas(key) == key \in DOMAIN quoteCache

\* The cache holds an entry for the key that is younger than cacheTimeout.
QuoteCacheFresh(key) ==
    /\ key \in DOMAIN quoteCache
    /\ quoteNow - quoteCache[key].timestamp < quoteService.cacheTimeout

\* The request of the current attempt: getQuote multiplies its timeout by
\* the attempt number, createSwapTransaction doubles it.
HttpRequest(call) ==
    [ method |-> call.method,
      attempt |-> call.attempt,
      timeout |-> IF call.method = "getQuote"
                  THEN quoteService.timeout * (call.attempt + 1)
                  ELSE quoteService.timeout * 2,
      res |-> "pending" ]

\* A wait after every failed attempt, the last one included.
WaitsAfterEveryFailure(attempt, retries) == attempt < retries

\* `attempt < this.retries - 1`: a failed attempt is followed by a wait
\* unless it was the last one.
WaitsBeforeRetry(attempt, retries) == attempt < retries - 1

\* `Math.pow(2, attempt) * 1000`
Backoff(attempt) == (2 ^ attempt) * BACKOFF_UNIT_MS

QuoteRejected(msg) == [kind |-> "rejected", error |-> msg, value |-> 0]
QuoteReturned(kind, v) == [kind |-> kind, error |-> "", value |-> v]
NoQuoteResult == [kind |-> "none", error |-> "", value |-> 0]
NoQuoteCall == [method |-> "none", params |-> <<>>, attempt |-> 0]

\* The head of the retry loop: the next request while attempts remain,
\* otherwise the throw that follows the loop.
RetryLoop(call, log, msg) ==
    /\ quoteCall' = call
    /\ IF call.attempt < quoteService.retries
       THEN /\ requests' = Append(log, HttpRequest(call))
            /\ quotePc' = "request"
            /\ UNCHANGED quoteResult
       ELSE /\ requests' = log
            /\ quotePc' = "rejected"
            /\ quoteResult' = QuoteRejected(msg)

\* The inner catch block: remember the error, wait if attempts remain, and
\* go round the loop.
AttemptFailed(log, msg) ==
    IF WaitsBeforeRetry(quoteCall.attempt, quoteService.retries)
    THEN /\ delays' = Append(delays, Backoff(quoteCall.attempt))
         /\ requests' = log
         /\ quotePc' = "backoff"
         /\ UNCHANGED <<quoteCall, quoteResult>>
    ELSE /\ RetryLoop([quoteCall EXCEPT !.attempt = @ + 1], log, msg)
         /\ UNCHANGED delays

SettleRequest(res) == [requests EXCEPT ![Len(requests)].res = res]
QuoteCallable == quotePc \in {"constructed", "returned", "rejected"} /\ quoteCalls < MaxQuoteCalls

QuoteStart ==
    /\ \E o \in QuoteServiceOptions : quoteService = QuoteServiceConstructor(o)
    /\ quoteCache = EmptyMap
    /\ quoteNow = 0
    /\ quotePc = "constructed"
    /\ quoteCall = NoQuoteCall
    /\ requests = <<>>
    /\ delays = <<>>
    /\ quoteResult = NoQuoteResult
    /\ quoteCalls = 0

QuoteIdle ==
    /\ quoteService = QuoteServiceConstructor(
            [timeout |-> 0, retries |-> 0, cacheTimeout |-> 0, baseSlippage |-> 0])
    /\ quoteCache = EmptyMap
    /\ quoteNow = 0
    /\ quotePc = "idle"
    /\ quoteCall = NoQuoteCall
    /\ requests = <<>>
    /\ delays = <<>>
    /\ quoteResult = NoQuoteResult
    /\ quoteCalls = 0

\* getQuote up to its first await: a fresh cache entry is returned at once,
\* otherwise the first request goes out.
QuoteServiceGetQuote ==
    /\ QuoteCallable
    /\ \E p \in GetQuoteParams :
          LET call == [method |-> "getQuote", params |-> p, attempt |-> 0] IN
          /\ quoteCalls' = quoteCalls + 1
          /\ delays' = <<>>
          /\ IF QuoteCacheFresh(QuoteCacheKey(p))
             THEN /\ quoteCall' = call
                  /\ requests' = <<>>
                  /\ quotePc' = "returned"
                  /\ quoteResult' = QuoteReturned("cached", quoteCache[QuoteCacheKey(p)].value)
             ELSE RetryLoop(call, <<>>, "Quote request failed")
    /\ UNCHANGED <<quoteService, quoteCache, quoteNow>>

\* One axios.get of getQuote settles.
QuoteServiceGetQuoteSettled ==
    /\ quotePc = "request"
    /\ quoteCall.method = "getQuote"
    /\ \/ /\ AttemptFailed(SettleRequest("error"), "Quote request failed")
          /\ UNCHANGED quoteCache
       \/ \E res \in {"nodata", "invalid"} :
             /\ requests' = SettleRequest(res)
             /\ quotePc' = "rejected"
             /\ quoteResult' = QuoteRejected("Quote request failed")
             /\ UNCHANGED <<quoteCall, delays, quoteCache>>
       \/ \E out \in {15000} :
             LET enhanced == [outAmount |-> out, timestamp |-> quoteNow,
                              slippageUsed |-> SlippageBpsOf(quoteCall.params),
                              request |-> RequestParams(quoteCall.params)] IN
             /\ requests' = SettleRequest("ok")
             /\ quoteCache' = MapSet(quoteCache, QuoteCacheKey(quoteCall.params),
                                     [value |-> enhanced, timestamp |-> quoteNow])
             /\ quotePc' = "returned"
             /\ quoteResult' = QuoteReturned("fetched", enhanced)
             /\ UNCHANGED <<quoteCall, delays>>
    /\ UNCHANGED <<quoteService, quoteNow, quoteCalls>>

\* createSwapTransaction up to its first await: no cache, the first request.
QuoteServiceCreateSwapTransaction ==
    /\ QuoteCallable
    /\ quoteCalls' = quoteCalls + 1
    /\ delays' = <<>>
    /\ RetryLoop([method |-> "createSwapTransaction", params |-> <<>>, attempt |-> 0],
                 <<>>, "Swap transaction creation failed")
    /\ UNCHANGED <<quoteService, quoteCache, quoteNow>>

\* One axios.post of createSwapTransaction settles.  A response whose data
\* is null makes `response.data.swapTransaction` throw inside the loop and
\* counts as a failed attempt; data without swapTransaction leaves the loop.
QuoteServiceCreateSwapSettled ==
    /\ quotePc = "request"
    /\ quoteCall.method = "createSwapTransaction"
    /\ \/ \E res \in {"error", "null"} :
             AttemptFailed(SettleRequest(res), "Swap transaction creation failed")
       \/ /\ requests' = SettleRequest("missing")
          /\ quotePc' = "rejected"
          /\ quoteResult' = QuoteRejected("Swap transaction creation failed")
          /\ UNCHANGED <<quoteCall, delays>>
       \/ /\ requests' = SettleRequest("ok")
          /\ quotePc' = "returned"
          /\ quoteResult' = QuoteReturned("fetched", "swapTransaction")
          /\ UNCHANGED <<quoteCall, delays>>
    /\ UNCHANGED <<quoteService, quoteCache, quoteNow, quoteCalls>>

\* The setTimeout of the back-off fires and the loop goes round.
QuoteServiceBackoffElapsed ==
    /\ quotePc = "backoff"
    /\ quoteNow + delays[Len(delays)] <= MaxQuoteNow
    /\ quoteNow' = quoteNow + delays[Len(delays)]
    /\ RetryLoop([quoteCall EXCEPT !.attempt = @ + 1], requests,
                 IF quoteCall.method = "getQuote" THEN "Quote request failed"
                 ELSE "Swap transaction creation failed")
    /\ UNCHANGED <<quoteService, quoteCache, delays, quoteCalls>>

\* Time passes.
QuoteServiceTick ==
    /\ quotePc # "idle"
    /\ quoteNow + QuoteTickMs <= MaxQuoteNow
    /\ quoteNow' = quoteNow + QuoteTickMs
    /\ UNCHANGED <<quoteService, quoteCache, quotePc, quoteCall, requests, delays,
                   quoteResult, quoteCalls>>

(***************************************************************************)
(* NetworkService.executeParallelCalls: cache and request pool              *)
(***************************************************************************)
MaxNetCalls == 3
MaxNetNow == 30000

DEFAULT_NET_CACHE_TIMEOUT == 30000
NetCacheTimeoutOptions == {0}
\* The clock advances in steps of half the default cache life.
NetTickMs == DEFAULT_NET_CACHE_TIMEOUT \div 2

Null == [t |-> "null", s |-> <<>>, n |-> 0]

\* JSON.stringify of one array element: undefined becomes null.
JsonValue(v) ==
    CASE v.t = "string" -> <<"\"">> \o v.s \o <<"\"">>
      [] v.t = "number" -> JsString(v)
      [] OTHER -> <<"n", "u", "l", "l">>

RECURSIVE JsonElements(_)
JsonElements(params) ==
    IF params = <<>> THEN <<>>
    ELSE IF Len(params) = 1 THEN JsonValue(params[1])
    ELSE JsonValue(params[1]) \o <<",">> \o JsonElements(Tail(params))

\* JSON.stringify(params) for an array.
JsonStringify(params) == <<"[">> \o JsonElements(params) \o <<"]">>

\* `${method}_${JSON.stringify(params)}`
requestKey(method, params) == <<method, "_">> \o JsonStringify(params)

\* The methods the Connection object has; calling any other name throws
\* before a request is made.
ConnectionMethods == {"getBalance"}

MapRemove(m, k) == [x \in DOMAIN m \ {k} |-> m[x]]

NetworkServiceConstructor(o) ==
    [ options |-> o,
      cacheTimeout |-> OrDefault(o.cacheTimeout, DEFAULT_NET_CACHE_TIMEOUT) ]

\* `cacheKey && this.cache.has(cacheKey)` and the entry is younger than
\* cacheTimeout.
NetCacheFresh(c, cacheKey) ==
    /\ cacheKey # ""
    /\ cacheKey \in DOMAIN c
    /\ netNow - c[cacheKey].timestamp < networkService.cacheTimeout

\* The requests for this method and these params that are in flight.
InFlight(ps, method, params) ==
    {i \in 1..Len(ps) : /\ ps[i].state = "pending"
                        /\ ps[i].method = method
                        /\ ps[i].params = params}

\* The request is started but never put in the pool.
PoolNotRegistered(pool, key, id) == pool

\* `this.requestPool.set(requestKey, requestPromise)`
PoolAfterStart(pool, key, id) == MapSet(pool, key, id)

\* One element of the calls array, up to its first await: the cache, then
\* the pool, then a new request whose promise is put in the pool.  A method
\* the connection does not have throws inside the request function: its
\* finally block deletes a pool entry that is not there yet, and the
\* rejected promise is then put in the pool.
StartCall(st, call) ==
    LET key == requestKey(call.method, call.params)
        result(source, pr, v) ==
            [ method |-> call.method, params |-> call.params, cacheKey |-> call.cacheKey,
              source |-> source, promise |-> pr, value |-> v,
              inflight |-> InFlight(st.promises, call.method, call.params) ]
        id == Len(st.promises) + 1
        known == call.method \in ConnectionMethods
        promise == [ state |-> IF known THEN "pending" ELSE "rejected",
                     value |-> 0,
                     method |-> call.method, params |-> call.params,
                     cacheKey |-> call.cacheKey, requestKey |-> key ]
    IN  IF NetCacheFresh(st.cache, call.cacheKey)
        THEN [st EXCEPT !.results = Append(@, result("cache", 0, st.cache[call.cacheKey].value))]
        ELSE IF key \in DOMAIN st.pool
        THEN [st EXCEPT !.results = Append(@, result("pool", st.pool[key], 0))]
        ELSE [st EXCEPT !.promises = Append(@, promise),
                        !.pool = PoolAfterStart(@, key, id),
                        !.results = Append(@, result("rpc", id, 0))]

RECURSIVE StartCalls(_, _)
\* calls.map(...): the elements are started one after the other.
StartCalls(st, cs) ==
    IF cs = <<>> THEN st ELSE StartCalls(StartCall(st, Head(cs)), Tail(cs))

NetCallInputs ==
    [ method : {"getBalance"},
      params : {<<Str(<<"A">>)>>, <<Undefined>>, <<Null>>},
      cacheKey : {"", "k"} ]
    \cup {[method |-> "getFoo", params |-> <<Undefined>>, cacheKey |-> ""]}

\* The arrays of calls handed to executeParallelCalls: one call or two.
Batches == UNION {[1..n -> NetCallInputs] : n \in 1..2}

NetStart ==
    /\ \E t \in NetCacheTimeoutOptions :
          networkService = NetworkServiceConstructor([cacheTimeout |-> t])
    /\ cache = EmptyMap
    /\ requestPool = EmptyMap
    /\ promises = <<>>
    /\ results = <<>>
    /\ netNow = 0

NetIdle ==
    /\ networkService = [options |-> [cacheTimeout |-> 0], cacheTimeout |-> 0]
    /\ cache = EmptyMap
    /\ requestPool = EmptyMap
    /\ promises = <<>>
    /\ results = <<>>
    /\ netNow = 0

ExecuteParallelCalls ==
    /\ networkService.cacheTimeout > 0
    /\ \E cs \in Batches :
          /\ Len(results) + Len(cs) <= MaxNetCalls
          /\ LET st == StartCalls([cache |-> cache, pool |-> requestPool,
                                   promises |-> promises, results |-> results], cs) IN
             /\ requestPool' = st.pool
             /\ promises' = st.promises
             /\ results' = st.results
    /\ UNCHANGED <<networkService, cache, netNow>>

\* A request settles: a result is cached under the call's cacheKey, and in
\* both cases the finally block deletes the request key from the pool.
RpcSettled ==
    /\ \E i \in 1..Len(promises) :
          /\ promises[i].state = "pending"
          /\ \/ \E v \in {1, 2} :
                   /\ promises' = [promises EXCEPT ![i].state = "fulfilled", ![i].value = v]
                   /\ cache' = IF promises[i].cacheKey # ""
                               THEN MapSet(cache, promises[i].cacheKey,
                                           [value |-> v, timestamp |-> netNow])
                               ELSE cache
             \/ /\ promises' = [promises EXCEPT ![i].state = "rejected"]
                /\ UNCHANGED cache
          /\ requestPool' = MapRemove(requestPool, promises[i].requestKey)
    /\ UNCHANGED <<networkService, results, netNow>>

\* Time passes.
NetTick ==
    /\ networkService.cacheTimeout > 0
    /\ netNow + NetTickMs <= MaxNetNow
    /\ netNow' = netNow + NetTickMs
    /\ UNCHANGED <<networkService, cache, requestPool, promises, results>>

(***************************************************************************)
(* NetworkService.confirmTransaction: the confirmation against a timer      *)
(***************************************************************************)
MaxConfirmNow == 90000
DEFAULT_CONFIRM_TIMEOUT == 60000

\* The instants at which something can happen, in ms since the call.
ConfirmInstants == {t \in {0, 500, 1000, 30000, 45000, 60000, 75000, 90000} : t <= MaxConfirmNow}
\* The timeout argument: 0 stands for one not given.
ConfirmTimeoutArgs == {0, 1000, 30000}

\* `timeout = 60000`: the default of a parameter that is not given.
TimeoutParameter(arg) == IF arg = 0 THEN DEFAULT_CONFIRM_TIMEOUT ELSE arg

NoConfirmOutcome == [kind |-> "none", message |-> "", confirmationResult |-> FALSE]

\* A catch block that wraps every error, the confirmation error included.
ConfirmCatchAlwaysWraps(error) ==
    [ kind |-> "rejected",
      message |-> "Transaction confirmation failed: " \o error.message,
      confirmationResult |-> FALSE ]

\* The catch block: an error that carries confirmationResult is rethrown,
\* any other is wrapped in a new error.
ConfirmCatch(error) ==
    IF error.confirmationResult
    THEN [kind |-> "rejected", message |-> error.message, confirmationResult |-> TRUE]
    ELSE [ kind |-> "rejected",
           message |-> "Transaction confirmation failed: " \o error.message,
           confirmationResult |-> FALSE ]

\* What follows the race when the RPC confirmation won it.
AfterConfirmation(res) ==
    CASE res = "ok" -> [kind |-> "returned", message |-> "", confirmationResult |-> FALSE]
      [] res = "err" -> ConfirmCatch([message |-> "Transaction confirmation failed",
                                      confirmationResult |-> TRUE])
      [] OTHER -> ConfirmCatch([message |-> "rpc error", confirmationResult |-> FALSE])

ConfirmStart ==
    /\ confirmPc = "ready"
    /\ confirmTimeout = 0
    /\ confirmNow = 0
    /\ rpcConfirmation = "pending"
    /\ rpcSettledAt = -1
    /\ timerFiredAt = -1
    /\ confirmOutcome = NoConfirmOutcome

ConfirmIdle ==
    /\ confirmPc = "idle"
    /\ confirmTimeout = 0
    /\ confirmNow = 0
    /\ rpcConfirmation = "pending"
    /\ rpcSettledAt = -1
    /\ timerFiredAt = -1
    /\ confirmOutcome = NoConfirmOutcome

\* confirmTransaction up to its await: the RPC call and the timer are started.
NetworkConfirmTransaction ==
    /\ confirmPc = "ready"
    /\ \E arg \in ConfirmTimeoutArgs : confirmTimeout' = TimeoutParameter(arg)
    /\ confirmPc' = "racing"
    /\ UNCHANGED <<confirmNow, rpcConfirmation, rpcSettledAt, timerFiredAt, confirmOutcome>>

\* connection.confirmTransaction settles; if the race is still open this
\* settles it.
RpcConfirmationSettled ==
    /\ confirmPc \in {"racing", "settled"}
    /\ rpcConfirmation = "pending"
    /\ \E res \in {"ok", "err", "rejected"} :
          /\ rpcConfirmation' = res
          /\ rpcSettledAt' = confirmNow
          /\ IF confirmPc = "racing"
             THEN confirmOutcome' = AfterConfirmation(res) /\ confirmPc' = "settled"
             ELSE UNCHANGED <<confirmOutcome, confirmPc>>
    /\ UNCHANGED <<confirmTimeout, confirmNow, timerFiredAt>>

\* The timer fires; if the race is still open this settles it.
ConfirmTimerFired ==
    /\ confirmPc \in {"racing", "settled"}
    /\ timerFiredAt = -1
    /\ confirmNow >= confirmTimeout
    /\ timerFiredAt' = confirmNow
    /\ IF confirmPc = "racing"
       THEN /\ confirmOutcome' = ConfirmCatch([message |-> "Transaction confirmation timeout",
                                               confirmationResult |-> FALSE])
            /\ confirmPc' = "settled"
       ELSE UNCHANGED <<confirmOutcome, confirmPc>>
    /\ UNCHANGED <<confirmTimeout, confirmNow, rpcConfirmation, rpcSettledAt>>

\* Time passes, but not past a timer that is due.
ConfirmTick ==
    /\ confirmPc \in {"racing", "settled"}
    /\ timerFiredAt # -1 \/ confirmNow < confirmTimeout
    /\ \E t \in ConfirmInstants :
          /\ t > confirmNow
          /\ \A u \in ConfirmInstants : u > confirmNow => t <= u
          /\ confirmNow' = t
    /\ UNCHANGED <<confirmPc, confirmTimeout, rpcConfirmation, rpcSettledAt, timerFiredAt,
                   confirmOutcome>>

(***************************************************************************)
(* PriorityFeeDemo.calculatePriorityFee (test-priority-fees.js)            *)
(***************************************************************************)
MaxSamples == 3
DEFAULT_PRIORITY_FEE_MICRO_LAMPORTS == 1000
DEFAULT_MAX_PRIORITY_FEE_MICRO_LAMPORTS == 50000
DEFAULT_MULTIPLIER_TENTHS == 12

PRIORITY_FEE_MODES == {"auto", "fixed", "dynamic", "helius"}

\* The modes calculatePriorityFee is called with: the four it knows and one
\* it does not.
ModeArgs == PRIORITY_FEE_MODES \cup {"turbo"}

\* The values of the priority-fee environment variables.
MaxFeeEnv ==
    { Undefined, Str(<<"0">>), Str(<<"5", "0", "0">>), Str(<<"1", "0", "0", "0">>),
      Str(<<"5", "0", "0", "0", "0">>), Str(<<"a", "b", "c">>) }
FixedFeeEnv ==
    { Undefined, Str(<<"0">>), Str(<<"2", "0", "0", "0">>),
      Str(<<"6", "0", "0", "0", "0">>) }
MultiplierEnv == { Undefined, Str(<<"0">>), Str(<<"1", ".", "5">>), Str(<<"2">>) }
HeliusEnv == { Undefined, Str(<<"h">>) }

\* The prioritizationFee values of the samples the RPC node returns.
SampleFees == {0, 1000, 60000}

\* What connection.getRecentPrioritizationFees gives: it throws, or returns
\* a list of samples.
RecentFeesOutcomes ==
    { [threw |-> TRUE, fees |-> <<>>] }
    \cup { [threw |-> FALSE, fees |-> f] :
             f \in UNION { [1..n -> SampleFees] : n \in 0..MaxSamples } }

NoRecentFees == [threw |-> FALSE, fees |-> <<>>]

\* `parseInt(v) || d`: NaN and 0 give d.
ParseIntOr(v, d) ==
    LET p == parseInt(v) IN IF p.nan \/ p.v = 0 THEN d ELSE p.v

\* `parseFloat(v) || d`, in tenths, for a decimal with at most one digit
\* after the point: NaN and 0 give d.
ParseFloatTenthsOr(v, d) ==
    LET s == StripLeadingSpace(JsString(v))
        ds == DigitPrefix(s, DecimalDigits)
        rest == SubSeq(s, Len(ds) + 1, Len(s))
        fs == IF rest # <<>> /\ Head(rest) = "." THEN DigitPrefix(Tail(rest), DecimalDigits)
              ELSE <<>>
        tenths == DigitsValue(ds, DecimalDigits, 0) * 10
                  + (IF fs = <<>> THEN 0 ELSE IndexOf(fs[1], DecimalDigits) - 1)
    IN  IF (ds = <<>> /\ fs = <<>>) \/ tenths = 0 THEN d ELSE tenths

RECURSIVE Insert(_, _)
Insert(x, sorted) ==
    IF sorted = <<>> \/ x <= Head(sorted) THEN <<x>> \o sorted
    ELSE <<Head(sorted)>> \o Insert(x, Tail(sorted))

RECURSIVE SortAscending(_)
\* fees.sort((a, b) => a - b)
SortAscending(fees) ==
    IF fees = <<>> THEN <<>> ELSE Insert(Head(fees), SortAscending(Tail(fees)))

getFixedPriorityFee(env) ==
    ParseIntOr(env.FIXED_PRIORITY_FEE_MICRO_LAMPORTS, DEFAULT_PRIORITY_FEE_MICRO_LAMPORTS)

\* getDynamicPriorityFee once the RPC call has settled with r.
getDynamicPriorityFee(env, r) ==
    IF r.threw \/ Len(r.fees) = 0 THEN DEFAULT_PRIORITY_FEE_MICRO_LAMPORTS
    ELSE LET fees == SortAscending(r.fees)
             p75 == fees[((Len(fees) * 3) \div 4) + 1]
             multiplier == ParseFloatTenthsOr(env.DYNAMIC_PRIORITY_FEE_MULTIPLIER,
                                              DEFAULT_MULTIPLIER_TENTHS)
             dynamicFee == (p75 * multiplier + 9) \div 10
         IN  Max(dynamicFee, DEFAULT_PRIORITY_FEE_MICRO_LAMPORTS)

\* getHeliusPriorityFee: the default fee, whether the endpoint is configured
\* (the call is a placeholder) or not (the error is caught).
getHeliusPriorityFee(env) ==
    IF Falsy(env.HELIUS_RPC_ENDPOINT) THEN DEFAULT_PRIORITY_FEE_MICRO_LAMPORTS
    ELSE DEFAULT_PRIORITY_FEE_MICRO_LAMPORTS

\* The maximum calculatePriorityFee applies.
maxFee(env) ==
    ParseIntOr(env.MAX_PRIORITY_FEE_MICRO_LAMPORTS, DEFAULT_MAX_PRIORITY_FEE_MICRO_LAMPORTS)

\* calculatePriorityFee(mode), with r what the RPC call gave in dynamic mode.
calculatePriorityFee(env, mode, r) ==
    LET fee == CASE mode = "fixed" -> getFixedPriorityFee(env)
                 [] mode = "dynamic" -> getDynamicPriorityFee(env, r)
                 [] mode = "helius" -> getHeliusPriorityFee(env)
                 [] OTHER -> DEFAULT_PRIORITY_FEE_MICRO_LAMPORTS
    IN  IF fee > maxFee(env) THEN maxFee(env) ELSE fee

FeeStart ==
    /\ feeEnv \in [ MAX_PRIORITY_FEE_MICRO_LAMPORTS : MaxFeeEnv,
                    FIXED_PRIORITY_FEE_MICRO_LAMPORTS : FixedFeeEnv,
                    DYNAMIC_PRIORITY_FEE_MULTIPLIER : MultiplierEnv,
                    HELIUS_RPC_ENDPOINT : HeliusEnv ]
    /\ feeMode = ""
    /\ feePc = "ready"
    /\ recentFees = NoRecentFees
    /\ returnedFee = -1

FeeIdle ==
    /\ feeEnv = [ MAX_PRIORITY_FEE_MICRO_LAMPORTS |-> Undefined,
                  FIXED_PRIORITY_FEE_MICRO_LAMPORTS |-> Undefined,
                  DYNAMIC_PRIORITY_FEE_MULTIPLIER |-> Undefined,
                  HELIUS_RPC_ENDPOINT |-> Undefined ]
    /\ feeMode = ""
    /\ feePc = "idle"
    /\ recentFees = NoRecentFees
    /\ returnedFee = -1

\* calculatePriorityFee(mode): to its return, or in dynamic mode to the
\* await of getRecentPrioritizationFees.
CalculatePriorityFee ==
    /\ feePc = "ready"
    /\ \E mode \in ModeArgs :
          /\ feeMode' = mode
          /\ IF mode = "dynamic"
             THEN feePc' = "fetching" /\ UNCHANGED returnedFee
             ELSE /\ feePc' = "returned"
                  /\ returnedFee' = calculatePriorityFee(feeEnv, mode, NoRecentFees)
    /\ UNCHANGED <<feeEnv, recentFees>>

\* getRecentPrioritizationFees settles and calculatePriorityFee runs on to
\* its return.
RecentFeesSettled ==
    /\ feePc = "fetching"
    /\ \E r \in RecentFeesOutcomes :
          /\ recentFees' = r
          /\ returnedFee' = calculatePriorityFee(feeEnv, feeMode, r)
    /\ feePc' = "returned"
    /\ UNCHANGED <<feeEnv, feeMode>>

(***************************************************************************)
(* Specifications                                                          *)
(***************************************************************************)
Init == SlipIdle /\ RunInit /\ QuoteIdle /\ NetIdle /\ ConfirmIdle /\ FeeIdle

\* A step of the swap run leaves the other components alone.
RunOnly == UNCHANGED <<slipVars, quoteVars, netVars, confirmVars, feeVars>>

Next ==
    \/ ModuleBody /\ RunOnly
    \/ EventLoopEmpty /\ RunOnly
    \/ Main /\ RunOnly
    \/ FetchPriorityFee /\ RunOnly
    \/ CheckBalance /\ RunOnly
    \/ GetQuote /\ RunOnly
    \/ CreateSwapTransaction /\ RunOnly
    \/ SimulateTransaction /\ RunOnly
    \/ SendTransaction /\ RunOnly
    \/ RetryDelay /\ RunOnly
    \/ ConfirmTransaction /\ RunOnly
    \/ Signal /\ RunOnly
    \/ PostSwap /\ RunOnly
    \/ PostSwapBalance /\ RunOnly
    \/ PostSwapQuote /\ RunOnly
    \/ PostSwapTransaction /\ RunOnly
    \/ PostSwapSent /\ RunOnly
    \/ PostSwapConfirmed /\ RunOnly

\* One swap run: a CLI process or one POST /swap request.
Spec == Init /\ [][Next]_vars

SlipNext == SlipCall /\ UNCHANGED <<runVars, quoteVars, netVars, confirmVars, feeVars>>

\* QuoteService.calculateAdaptiveSlippage over its configurations and inputs.
InitSlippage == SlipStart /\ RunIdle /\ QuoteIdle /\ NetIdle /\ ConfirmIdle /\ FeeIdle

SpecSlippage == InitSlippage /\ [][SlipNext]_vars

QuoteOnly == UNCHANGED <<slipVars, runVars, netVars, confirmVars, feeVars>>

QuoteNext ==
    \/ QuoteServiceGetQuote /\ QuoteOnly
    \/ QuoteServiceGetQuoteSettled /\ QuoteOnly
    \/ QuoteServiceCreateSwapTransaction /\ QuoteOnly
    \/ QuoteServiceCreateSwapSettled /\ QuoteOnly
    \/ QuoteServiceBackoffElapsed /\ QuoteOnly
    \/ QuoteServiceTick /\ QuoteOnly

\* QuoteService.getQuote and createSwapTransaction over their options.
InitQuote == SlipIdle /\ RunIdle /\ QuoteStart /\ NetIdle /\ ConfirmIdle /\ FeeIdle

SpecQuote == InitQuote /\ [][QuoteNext]_vars

NetOnly == UNCHANGED <<slipVars, runVars, quoteVars, confirmVars, feeVars>>

NetNext ==
    \/ ExecuteParallelCalls /\ NetOnly
    \/ RpcSettled /\ NetOnly
    \/ NetTick /\ NetOnly

\* NetworkService.executeParallelCalls over batches of calls.
InitNet == SlipIdle /\ RunIdle /\ QuoteIdle /\ NetStart /\ ConfirmIdle /\ FeeIdle

SpecNet == InitNet /\ [][NetNext]_vars

ConfirmOnly == UNCHANGED <<slipVars, runVars, quoteVars, netVars, feeVars>>

ConfirmNext ==
    \/ NetworkConfirmTransaction /\ ConfirmOnly
    \/ RpcConfirmationSettled /\ ConfirmOnly
    \/ ConfirmTimerFired /\ ConfirmOnly
    \/ ConfirmTick /\ ConfirmOnly

InitConfirm == SlipIdle /\ RunIdle /\ QuoteIdle /\ NetIdle /\ ConfirmStart /\ FeeIdle

\* NetworkService.confirmTransaction over its timeouts and the RPC's outcomes.
SpecConfirm == InitConfirm /\ [][ConfirmNext]_vars

FeeOnly == UNCHANGED <<slipVars, runVars, quoteVars, netVars, confirmVars>>

FeeNext ==
    \/ CalculatePriorityFee /\ FeeOnly
    \/ RecentFeesSettled /\ FeeOnly

InitFee == SlipIdle /\ RunIdle /\ QuoteIdle /\ NetIdle /\ ConfirmIdle /\ FeeStart

\* PriorityFeeDemo.calculatePriorityFee over its environment, its modes and
\* the fee samples of the network.
SpecFee == InitFee /\ [][FeeNext]_vars

(***************************************************************************)
(* Claims                                                                  *)
(***************************************************************************)
\* C1 as stated: every returned value r satisfies min <= r <= max.
C1_Original ==
    slipPc = "returned" =>
        /\ slippageConfig.min <= adaptiveSlippage
        /\ adaptiveSlippage <= slippageConfig.max

\* C1 amended: every returned value r satisfies r >= min; r <= max whenever
\* the configured min <= max; configured with min > max the result is min.
C1_Clamped ==
    slipPc = "returned" =>
        /\ slippageConfig.min <= adaptiveSlippage
        /\ slippageConfig.min <= slippageConfig.max => adaptiveSlippage <= slippageConfig.max
        /\ slippageConfig.min > slippageConfig.max => adaptiveSlippage = slippageConfig.min

\* A call whose unclamped value lies above max, under a configuration with
\* min <= max, has returned max.
C1_Witness ==
    /\ slipPc = "returned"
    /\ slippageConfig.min <= slippageConfig.max
    /\ calculateAdaptiveSlippageNoUpperClamp(slippageConfig, slipArgs.impactQ, slipArgs.routeInfo)
         > slippageConfig.max
    /\ adaptiveSlippage = slippageConfig.max
\* ---------------------------------------------------------------- helpers
CallsTo(api) == {i \in 1..Len(calls) : calls[i].api = api}
CallsToWith(api, res) == {i \in 1..Len(calls) : calls[i].api = api /\ calls[i].res = res}
IsCli == entry \in CliEntries
\* main() has run its synchronous part.
MainRan == IsCli /\ RunsMain(entry, scriptPath) /\ pc \notin {"module", "main"}
\* The constructor threw: main() exited with 1 before a Connection existed.
ConstructorThrew == IsCli /\ pc = "exited" /\ exitStatus = <<1>> /\ ~connection
\* The integer value of FEE_BASIS_POINTS lies in 0..10000.
FeeInRange(v) == LET f == parseInt(v) IN ~f.nan /\ f.v \in 0..MAX_FEE_BPS
KeyAndRecipientValid ==
    /\ ~Falsy(input.privateKey) /\ ~Falsy(input.feeRecipient)
    /\ PrivateKeyOk(input.privateKey, input.keyDerives)
    /\ PublicKeyOk(input.feeRecipient)
\* The private key is a string that base58-decodes to a number of bytes
\* other than 64.
KeyHasOtherLength ==
    /\ input.privateKey.t = "string"
    /\ ~bs58decode(input.privateKey.s).threw
    /\ Len(bs58decode(input.privateKey.s).bytes) # SECRET_KEY_LENGTH

\* C2: CoreSwap's constructor accepts FEE_BASIS_POINTS exactly when its
\* integer value lies in 0..10000 (the other variables being valid); for
\* every other value it throws and no connection and no request is made.
C2_FeeBasisPoints ==
    /\ (IsCli /\ connection) => FeeInRange(input.feeBps)
    /\ (MainRan /\ KeyAndRecipientValid /\ FeeInRange(input.feeBps)) => connection
    /\ (MainRan /\ ~FeeInRange(input.feeBps)) => (ConstructorThrew /\ calls = <<>>)

\* A run whose constructor accepted FEE_BASIS_POINTS = "10000" and opened
\* the connection.
C2_Witness ==
    /\ IsCli /\ connection
    /\ parseInt(input.feeBps).v = MAX_FEE_BPS

\* C3 as stated: POST /swap accepts every feeBps whose integer value lies in
\* 0..10000 (with a valid key and recipient it goes on to the balance
\* check) and answers 400 for every other feeBps.
C3_Original ==
    (entry = "server" /\ pc # "request") =>
        /\ (KeyAndRecipientValid /\ FeeInRange(input.feeBps))
              => (connection /\ CallsTo("getBalance") # {})
        /\ ~FeeInRange(input.feeBps)
              => (Len(responses) = 1 /\ responses[1].status = 400 /\ calls = <<>>)

\* C4 as stated: a key is accepted only if it decodes to 64 bytes; for any
\* other decoded length the constructor throws 'Invalid private key' and
\* POST /swap answers 400, before any request.
C4_Original ==
    /\ keypair => ~KeyHasOtherLength
    /\ (MainRan /\ KeyHasOtherLength)
          => (ConstructorThrew /\ errorMessage = "Invalid private key" /\ calls = <<>>)
    /\ (entry = "server" /\ pc # "request" /\ KeyHasOtherLength)
          => (Len(responses) = 1 /\ responses[1].status = 400 /\ calls = <<>>)

\* C4 amended: a key is accepted only if it decodes to 64 bytes; for any
\* other decoded length the constructor throws, 'Invalid private key' when
\* PRIVATE_KEY, FEE_RECIPIENT and FEE_BASIS_POINTS are all set and not
\* empty and 'Missing environment variables' otherwise, and POST /swap
\* answers 400, in both cases before any request.
C4_PrivateKey ==
    /\ keypair => ~KeyHasOtherLength
    /\ (MainRan /\ KeyHasOtherLength)
          => /\ ConstructorThrew
             /\ calls = <<>>
             /\ errorMessage =
                  IF Falsy(input.privateKey) \/ Falsy(input.feeRecipient) \/ Falsy(input.feeBps)
                  THEN "Missing environment variables"
                  ELSE "Invalid private key"
    /\ (entry = "server" /\ pc # "request" /\ KeyHasOtherLength)
          => (Len(responses) = 1 /\ responses[1].status = 400 /\ calls = <<>>)

\* A 65-byte key, everything else set, was rejected as an invalid key.
C4_Witness ==
    /\ MainRan /\ ConstructorThrew
    /\ ~bs58decode(input.privateKey.s).threw
    /\ Len(bs58decode(input.privateKey.s).bytes) = SECRET_KEY_LENGTH + 1
    /\ errorMessage = "Invalid private key"

\* C5: in executeSwap a simulation that reports an error is followed by no
\* sendTransaction and no confirmTransaction and performSwap rejects; every
\* sendTransaction comes after a simulation that returned no error.
C5_SimulationGate ==
    IsCli =>
        /\ \A i \in CallsTo("sendTransaction") :
              \E j \in CallsToWith("simulateTransaction", "ok") : j < i
        /\ CallsToWith("simulateTransaction", "err") # {}
              => /\ CallsTo("sendTransaction") = {}
                 /\ CallsTo("confirmTransaction") = {}
                 /\ swapOutcome = "rejected"

\* A run whose simulation reported an error has been rejected.
C5_Witness ==
    /\ IsCli
    /\ CallsToWith("simulateTransaction", "err") # {}
    /\ swapOutcome = "rejected"

\* C6 as stated: a CLI process exits with status 0 only if the transaction
\* was sent and its confirmation returned without error; a failed step and
\* a signal end it with status 1.
C6_Original ==
    (IsCli /\ pc = "exited") =>
        /\ exitStatus = <<0>>
              => /\ CallsToWith("sendTransaction", "ok") # {}
                 /\ CallsToWith("confirmTransaction", "ok") # {}
        /\ (swapOutcome = "rejected" \/ errorMessage # "") => exitStatus = <<1>>

\* C7 as stated: a failed quote or swap-build request of performSwap has
\* been attempted 2 or 3 times when the run is aborted.
C7_Original ==
    \A api \in {"quote", "swap"} :
        (IsCli /\ Program(entry).class = "CoreSwap" /\ swapOutcome = "rejected"
              /\ calls # <<>> /\ calls[Len(calls)].api = api)
            => Cardinality(CallsTo(api)) \in 2..3

\* C7 amended: performSwap attempts the quote request and the swap-build
\* request once each; a failure of either aborts the run at once, with no
\* second attempt and no delay.
C7_SingleAttempt ==
    \A api \in {"quote", "swap"} :
        (IsCli /\ Program(entry).class = "CoreSwap")
            => /\ Cardinality(CallsTo(api)) <= 1
               /\ \A i \in CallsTo(api) :
                     calls[i].res \in {"error", "invalid", "missing"}
                        => (i = Len(calls) /\ swapOutcome = "rejected" /\ waits = <<>>
                            /\ exitStatus = <<1>>)

\* A CoreSwap run aborted by a failed quote request, attempted once.
C7_Witness ==
    /\ IsCli /\ Program(entry).class = "CoreSwap"
    /\ swapOutcome = "rejected"
    /\ CallsToWith("quote", "error") = {Len(calls)}
    /\ Cardinality(CallsTo("quote")) = 1

\* C8: executeSwap calls sendTransaction at most 3 times; the first attempt
\* that returns a signature is the last; after the third failed attempt the
\* run fails and confirmTransaction has not been called.
C8_SendAttempts ==
    IsCli =>
        /\ Cardinality(CallsTo("sendTransaction")) <= maxAttempts
        /\ \A i \in CallsToWith("sendTransaction", "ok") :
              \A j \in CallsTo("sendTransaction") : j <= i
        /\ \A i \in CallsTo("confirmTransaction") :
              i > 1 /\ calls[i - 1].api = "sendTransaction" /\ calls[i - 1].res = "ok"
        /\ Cardinality(CallsToWith("sendTransaction", "error")) = maxAttempts
              => /\ swapOutcome = "rejected"
                 /\ exitStatus = <<1>>
                 /\ CallsTo("confirmTransaction") = {}

\* A run that failed after three failed attempts to send.
C8_Witness ==
    /\ IsCli
    /\ Cardinality(CallsToWith("sendTransaction", "error")) = maxAttempts
    /\ swapOutcome = "rejected"
\* The attempts of the call in progress that failed.
FailedRequests == {i \in 1..Len(requests) : requests[i].res \in {"error", "null"}}

\* C9: getQuote and createSwapTransaction make at most `retries` HTTP
\* requests (3 when the option is not given), make none after the first
\* that succeeds, wait 2^(k-1) seconds after the k-th failure before the
\* next request, and do not wait after the last failure.
C9_BoundedRetry ==
    quotePc # "idle" =>
        /\ quoteService.options.retries = 0 => quoteService.retries = DEFAULT_RETRIES
        /\ Len(requests) <= quoteService.retries
        /\ \A i \in 1..Len(requests) :
              requests[i].res \notin {"pending", "error", "null"}
                 => (i = Len(requests) /\ quotePc \in {"returned", "rejected"})
        /\ Len(delays) = Min(Cardinality(FailedRequests), quoteService.retries - 1)
        /\ \A k \in 1..Len(delays) : delays[k] = (2 ^ (k - 1)) * 1000
        /\ Len(requests) <= Len(delays) + 1
        /\ quotePc = "backoff" => Len(requests) = Len(delays)
        /\ Cardinality(FailedRequests) = quoteService.retries => quotePc = "rejected"

\* A call under the default of 3 attempts has failed three times, waited
\* 1 s and 2 s, and been rejected.
C9_Witness ==
    /\ quoteService.options.retries = 0
    /\ quotePc = "rejected"
    /\ Cardinality(FailedRequests) = 3
    /\ delays = <<1000, 2000>>
\* C10 as stated: a call made while a request for the same method and
\* params is in flight starts no new request and resolves to the result of
\* the request in flight.
C10_Original ==
    \A j \in 1..Len(results) :
        results[j].inflight # {}
            => (results[j].source # "rpc" /\ results[j].promise \in results[j].inflight)

\* C10 amended: a call made while a request for the same method and params
\* is in flight starts no new request; it resolves to the result of the
\* request in flight, unless it carries a cacheKey whose cache entry is
\* still fresh, and then it returns the cached value.  At most one request
\* per request key is in flight.
C10_Deduplicated ==
    /\ \A j \in 1..Len(results) :
          results[j].inflight # {}
              => \/ results[j].source = "pool" /\ results[j].promise \in results[j].inflight
                 \/ /\ results[j].source = "cache"
                    /\ results[j].cacheKey # ""
                    /\ results[j].promise = 0
    /\ \A i, k \in 1..Len(promises) :
          (/\ promises[i].state = "pending" /\ promises[k].state = "pending"
           /\ promises[i].requestKey = promises[k].requestKey) => i = k

\* A second identical call was handed the promise of the request in flight.
C10_Witness ==
    \E j \in 1..Len(results) :
        /\ results[j].inflight # {}
        /\ results[j].source = "pool"
        /\ results[j].promise \in results[j].inflight
\* The RPC confirmation resolved (was fulfilled) before the timeout elapsed.
ResolvedWithinTimeout ==
    rpcConfirmation \in {"ok", "err"} /\ rpcSettledAt < confirmTimeout
\* The RPC confirmation settled either way before the timeout elapsed.
SettledWithinTimeout == rpcConfirmation # "pending" /\ rpcSettledAt < confirmTimeout
TimeoutMessage == "Transaction confirmation failed: Transaction confirmation timeout"

\* C11 as stated: a settled call has rejected with the timeout error if the
\* RPC confirmation did not resolve within `timeout` ms, and otherwise has
\* returned the confirmation, or rejected with 'Transaction confirmation
\* failed' if the confirmation carries an error.
C11_Original ==
    confirmPc = "settled" =>
        /\ (rpcConfirmation \notin {"ok", "err"} \/ rpcSettledAt > confirmTimeout)
              => confirmOutcome.message = TimeoutMessage
        /\ (ResolvedWithinTimeout /\ rpcConfirmation = "ok") => confirmOutcome.kind = "returned"
        /\ (ResolvedWithinTimeout /\ rpcConfirmation = "err")
              => confirmOutcome.message = "Transaction confirmation failed"

\* C11 amended: confirmTransaction settles once, and the timeout is 60000
\* when not given.  If the RPC confirmation has not settled within
\* `timeout` ms the call rejects with the timeout error; if it settled
\* before that, the call returns the confirmation, or rejects with
\* 'Transaction confirmation failed' (carrying confirmationResult) when the
\* confirmation has an error, or rejects with 'Transaction confirmation
\* failed: <message>' when the RPC call itself rejected.
C11_Race ==
    /\ confirmPc \in {"racing", "settled"}
          => confirmTimeout \in {DEFAULT_CONFIRM_TIMEOUT} \cup (ConfirmTimeoutArgs \ {0})
    /\ confirmPc = "settled" <=> confirmOutcome.kind # "none"
    /\ (confirmPc = "racing" /\ confirmNow > confirmTimeout) => FALSE
    /\ confirmPc = "settled" =>
          /\ (rpcConfirmation = "pending" \/ rpcSettledAt > confirmTimeout)
                => (confirmOutcome.kind = "rejected" /\ confirmOutcome.message = TimeoutMessage)
          /\ (SettledWithinTimeout /\ rpcConfirmation = "ok")
                => confirmOutcome.kind = "returned"
          /\ (SettledWithinTimeout /\ rpcConfirmation = "err")
                => /\ confirmOutcome.kind = "rejected"
                   /\ confirmOutcome.message = "Transaction confirmation failed"
                   /\ confirmOutcome.confirmationResult
          /\ (SettledWithinTimeout /\ rpcConfirmation = "rejected")
                => /\ confirmOutcome.kind = "rejected"
                   /\ confirmOutcome.message = "Transaction confirmation failed: rpc error"
          /\ confirmOutcome.message = TimeoutMessage => timerFiredAt # -1

\* A call under the default timeout was settled by the timer, and the RPC
\* confirmation arrived afterwards.
C11_Witness ==
    /\ confirmPc = "settled"
    /\ confirmTimeout = DEFAULT_CONFIRM_TIMEOUT
    /\ confirmOutcome.message = TimeoutMessage
    /\ rpcConfirmation = "ok"
    /\ rpcSettledAt > timerFiredAt
\* The request body passes the handler's validation.
RequestFieldsValid ==
    /\ ~Falsy(input.feeBps)
    /\ KeyAndRecipientValid
    /\ FeeInRange(input.feeBps)

C13_Original ==
    (IsCli /\ Program(entry).class = "CoreSwap") =>
        /\ \A i \in CallsTo("quote") : calls[i].req.fee = FeeOf(input)
        /\ \A i \in CallsTo("swap") : calls[i].req.feeAccount = <<input.feeRecipient.s>>
        /\ swapOutcome = "resolved"
              => (CallsTo("quote") # {} /\ CallsTo("swap") # {})
\* The request the original JupiterSwapBot of jupiter-swap.js makes at the
\* same step with the same environment and the same responses so far.
OriginalRequest(call) ==
    CASE call.api = "quote" -> QuoteParams("jupiter-swap", input)
      [] call.api = "swap" -> SwapPayload("jupiter-swap", input, quote, Program("jupiter-swap").priorityFee)
      [] call.api = "simulateTransaction" -> SimulationOptions("jupiter-swap")
      [] OTHER -> call.req

\* C14 as stated: the deprecated wrapper over CoreSwap passes the balance
\* check for the balances the original passes it for and sends every
\* request with the parameters the original JupiterSwapBot sends it with.
C14_Original ==
    entry = "jupiter-swap-wrapper" =>
        /\ \A b \in BalanceInputs :
              BalanceError("jupiter-swap-wrapper", b) = BalanceError("jupiter-swap", b)
        /\ \A i \in 1..Len(calls) : calls[i].req = OriginalRequest(calls[i])
\* C15 as stated: the quote request of a CoreSwap run carries the
\* onlyDirectRoutes value the CoreSwap was built with (true by default and
\* for index.js).
C15_Original ==
    (IsCli /\ Program(entry).class = "CoreSwap") =>
        \A i \in CallsTo("quote") :
            calls[i].req.onlyDirectRoutes = Program(entry).options.onlyDirectRoutes
\* The place of an external call in performSwap's order.
Rank(api) ==
    CASE api = "getBalance" -> 1
      [] api = "quote" -> 2
      [] api = "swap" -> 3
      [] api = "simulateTransaction" -> 4
      [] api = "sendTransaction" -> 5
      [] api = "confirmTransaction" -> 6
      [] OTHER -> 0

\* C16: the external calls of a CoreSwap.performSwap run come in the order
\* getBalance, quote, swap, simulateTransaction, sendTransaction,
\* confirmTransaction, each after the one before it succeeded (only a failed
\* sendTransaction is repeated); none is made when the environment
\* validation fails, and no quote is requested when the balance is below
\* SWAP_AMOUNT.
C16_CallOrder ==
    (IsCli /\ Program(entry).class = "CoreSwap") =>
        /\ \A i \in 1..Len(calls) :
              Rank(calls[i].api) > 0 =>
                 /\ Rank(calls[i].api) > 1
                       => \E j \in 1..(i - 1) :
                             /\ Rank(calls[j].api) = Rank(calls[i].api) - 1
                             /\ calls[j].res = "ok"
                 /\ \A j \in 1..(i - 1) :
                       /\ Rank(calls[j].api) <= Rank(calls[i].api)
                       /\ Rank(calls[j].api) = Rank(calls[i].api)
                             => (calls[i].api = "sendTransaction" /\ calls[j].res = "error")
        /\ \A i \in 1..Len(calls) :
              Rank(calls[i].api) = 0 => (i = 1 /\ Program(entry).fetchesPriorityFee)
        /\ ~connection => calls = <<>>
        /\ (MainRan /\ ~validateEnvironment(input).ok) => (calls = <<>> /\ ConstructorThrew)
        /\ CallsTo("quote") # {} => balance >= SWAP_AMOUNT

\* A CoreSwap run has made all six calls and its confirmation returned.
C16_Witness ==
    /\ IsCli /\ Program(entry).class = "CoreSwap"
    /\ swapOutcome = "resolved"
    /\ \A k \in 1..6 : \E i \in 1..Len(calls) : Rank(calls[i].api) = k /\ calls[i].res = "ok"
\* The MAX_PRIORITY_FEE_MICRO_LAMPORTS the environment configures: 50000
\* when it is unset, the number it spells otherwise (-1 when it spells none).
ConfiguredMaxFee ==
    LET v == feeEnv.MAX_PRIORITY_FEE_MICRO_LAMPORTS
    IN  IF v.t = "undefined" THEN DEFAULT_MAX_PRIORITY_FEE_MICRO_LAMPORTS
        ELSE IF parseInt(v).nan THEN -1 ELSE parseInt(v).v

\* The fee source of the call failed: no samples or a throw in dynamic mode,
\* no Helius endpoint in helius mode.
FeeSourceFailed ==
    \/ feeMode = "dynamic" /\ (recentFees.threw \/ recentFees.fees = <<>>)
    \/ feeMode = "helius" /\ Falsy(feeEnv.HELIUS_RPC_ENDPOINT)

\* C17: calculatePriorityFee never returns more than the configured
\* MAX_PRIORITY_FEE_MICRO_LAMPORTS (50000 when unset), in every mode, for
\* every fee sample and every configured maximum >= 0.
C17_Original ==
    (feePc = "returned" /\ ConfiguredMaxFee >= 0) => returnedFee <= ConfiguredMaxFee

\* C18: when its fee source fails, calculatePriorityFee returns the default
\* fee of 1000 micro-lamports, capped at the configured maximum.
C18_Original ==
    (feePc = "returned" /\ FeeSourceFailed /\ ConfiguredMaxFee >= 0)
        => returnedFee = Min(DEFAULT_PRIORITY_FEE_MICRO_LAMPORTS, ConfiguredMaxFee)
README_FUNDING_LAMPORTS == 1000000

\* The entry points a user runs a swap with.
SwapEntryPoints == {"index", "jupiter-swap", "swap-no-priority", "server"}

\* C19: a wallet holding 0.001 SOL (1,000,000 lamports) passes the balance
\* check of every swap entry point: once getBalance has returned that
\* balance the run has gone on to request a quote.
C19_Original ==
    (entry \in SwapEntryPoints /\ balance = README_FUNDING_LAMPORTS)
        => CallsTo("quote") # {}

AdditiveSlippage ==
    slippageConfig.base
    + (IF slipArgs.impactQ > 4
       THEN (slipArgs.impactQ * slippageConfig.priceImpactMultiplier * 100) \div 8
       ELSE 0)
    + 25 * Max(slipArgs.routeInfo.hops - 1, 0)

\* clamp(x, min, max) for the configuration of the service.
ClampSlippage(x) == Max(slippageConfig.min, Min(slippageConfig.max, x))

UsesVolatileDex == slipArgs.routeInfo.exchanges \cap {"Serum", "OpenBook", "Raydium CLMM"} # {}

\* C22 as stated: the result is the additive sum, clamped, whatever
\* exchanges the route uses.
C22_Original ==
    slipPc = "returned" => adaptiveSlippage = ClampSlippage(AdditiveSlippage)

\* C22, amended: the result is the additive sum, clamped, for a route that
\* uses none of Serum, OpenBook and Raydium CLMM; for a route that uses one
\* of them the sum is first multiplied by volatilityFactor and floored.
C22_VolatilityFactor ==
    slipPc = "returned" =>
        adaptiveSlippage =
            ClampSlippage(IF UsesVolatileDex
                          THEN (AdditiveSlippage * slippageConfig.volatilityFactorQ) \div 4
                          ELSE AdditiveSlippage)

\* A call for a route over a volatile exchange returned a value strictly
\* inside the clamp that is not the additive sum.
C22_Witness ==
    /\ slipPc = "returned"
    /\ UsesVolatileDex
    /\ slipArgs.routeInfo.hops > 1
    /\ adaptiveSlippage > slippageConfig.min
    /\ adaptiveSlippage < slippageConfig.max
    /\ adaptiveSlippage # AdditiveSlippage
\* The cacheTimeout of the service: the option, or 15 s when none is given.
ConfiguredCacheTimeout ==
    IF quoteService.options.cacheTimeout = 0 THEN 15000
    ELSE quoteService.options.cacheTimeout

\* C23: a getQuote call is served from the cache only while the entry is
\* younger than cacheTimeout (15 s by default), and then without any HTTP
\* request; the cache changes only when a call has fetched a quote with an
\* outAmount, never in a step that fails.
C23_CacheLifetime ==
    [][ /\ (quoteCalls' = quoteCalls + 1 /\ quotePc' = "returned")
           => /\ quoteResult'.kind = "cached" /\ quoteCall'.method = "getQuote"
              /\ QuoteCacheKey(quoteCall'.params) \in DOMAIN quoteCache
              /\ quoteNow - quoteCache[QuoteCacheKey(quoteCall'.params)].timestamp
                    < ConfiguredCacheTimeout
              /\ quoteResult'.value = quoteCache[QuoteCacheKey(quoteCall'.params)].value
              /\ requests' = <<>>
        /\ quoteCache' # quoteCache
           => /\ quoteResult'.kind = "fetched"
              /\ requests'[Len(requests')].res = "ok"
              /\ quoteResult'.value.outAmount > 0
      ]_vars

\* A call was served from the cache, and the clock has since passed the
\* life of that entry.
C23_Witness ==
    /\ quoteCall.method = "getQuote"
    /\ quoteResult.kind = "cached"
    /\ requests = <<>>
    /\ quoteNow - quoteResult.value.timestamp >= ConfiguredCacheTimeout

\* C24: a cached quote is returned only to a call whose request parameters
\* all equal those of the call that fetched it, platformFeeBps included.
C24_Original ==
    (quoteCall.method = "getQuote" /\ quoteResult.kind = "cached")
        => quoteResult.value.request = RequestParams(quoteCall.params)
\* C25: requestPool holds only requests that are still in flight: every
\* entry of the pool is the promise of a request that has not settled, also
\* after connection[method] threw synchronously or was not a function.
C25_Original ==
    \A key \in DOMAIN requestPool : promises[requestPool[key]].state = "pending"
\* C26: one CoreSwap.performSwap run submits at most one distinct signed
\* transaction: every sendTransaction of the run, retries included, sends
\* the transaction that was deserialized from the swap response and signed
\* once.
C26_OneSignedTransaction ==
    (IsCli /\ Program(entry).class = "CoreSwap") =>
        /\ \A i, j \in CallsTo("sendTransaction") : calls[i].req = calls[j].req
        /\ \A i \in CallsTo("sendTransaction") :
              /\ calls[i].req.signing = 1
              /\ calls[i].req.transaction = swapTransaction
              /\ Cardinality(CallsToWith("swap", "ok")) = 1

\* A CoreSwap run whose first two sends were reported as failed has sent a
\* third time.
C26_Witness ==
    /\ IsCli /\ Program(entry).class = "CoreSwap"
    /\ Cardinality(CallsToWith("sendTransaction", "error")) = 2
    /\ Cardinality(CallsTo("sendTransaction")) = 3
====
